---- MODULE Spec2Model ----
(***************************************************************************)
(* A model of the vision-reasoning scripts:                                *)
(*   - the hierarchy builders of hierarchical_datasets/caltech_test.py and *)
(*     caltech_wordnet.py (SpecHier),                                      *)
(*   - the Caltech101 and Flowers102 dataset adapters (SpecData),          *)
(*   - evaluate_dataset of qwen_bird/baseline.py (SpecEval),               *)
(*   - the evaluation drivers of qwen_bird_open and qwen_caltech_set       *)
(*     (SpecRuns) and their text functions called alone (SpecText),        *)
(*   - CUB200Dataset of qwen_bird/dataset.py (SpecCrop),                   *)
(*   - extract_gt_pred_dict.py (SpecExtract) and merge_all.py (SpecMerge). *)
(* Text is a sequence of one-character strings.  The parts share no state; *)
(* each specification leaves the variables of the others at their idle     *)
(* values.                                                                 *)
(***************************************************************************)
EXTENDS Integers, Sequences, FiniteSets, TLC

VARIABLES
    \* ---- hierarchy builders
    hsrc,        \* which get_*_hierarchy function was called
    hlabel,      \* its argument
    hpc,         \* "entry" | "walk" | "returned" | "propagated" | "printed" | "unpack_error"
    hierarchy,   \* the local list being built
    visited,     \* the local visited set
    current,     \* current_uri / current_id, an optional node
    depth,       \* the local depth counter
    synset,      \* get_wordnet_hierarchy's local synset, an optional
    result,      \* the list returned to the caller
    caught,      \* an exception was raised and caught by the function's handler
    shown,       \* the list the calling script prints
    walked,      \* the identifiers of the concepts that got an entry, in order
    listed,      \* the parents the latest answer listed, in the answer's order
    tol_requests,\* the Tree of Life requests made, in order
    taxon_info,  \* get_tree_of_life_hierarchy's local taxon_info, an optional
    \* ---- dataset adapters
    disk,        \* what is on disk under the dataset root
    ds,          \* the constructed dataset object (or the exception raised)
    item,        \* the last value returned by __getitem__
    \* ---- evaluate_dataset
    epc,         \* "run" | "summary" | "returned" | "zero_division"
    eidx,        \* number of samples processed
    dataset,     \* the samples (label indices), fixed for the run
    outputs,     \* the text the model returns for each sample
    reasoning,   \* is_reasoning
    log,         \* the records written to the output file, in order
    correct,
    total,
    \* ---- the evaluation scripts (qwen_bird_open, qwen_caltech_set)
    spc,                  \* where the script is
    made,                 \* per class, how many predictions the model has returned
    results,              \* the results list
    class_predictions,    \* ground truth -> list of predictions
    prompt_no,            \* position in the prompts dict
    category_outputs,     \* category -> set of predictions, one prompt
    category_outputs_all, \* category -> set of predictions, all prompts
    invalid_count,
    files,                \* the files written: name -> content
    \* ---- text functions called on their own
    call,                 \* the function called and its arguments
    answer,               \* what it returned, an optional
    \* ---- CUB200Dataset (qwen_bird/dataset.py)
    cub,                  \* the instance: its CUB_200 and _cropped_dataset attributes
    called,               \* the calls made on it so far, each with the object it returned
    maps_run,             \* how many times CUB_200.map has been executed
    \* ---- extract_gt_pred_dict.py
    xpc,                  \* "lines" | "printed"
    lineno,               \* the lines of pred_file read so far
    gt,                   \* the local gt, an optional
    gt_to_preds,          \* ground truth -> set of predictions
    \* ---- merge_all.py
    mpc,                  \* "load" | "write" | "done" | "value_error"
    json_files,           \* the JSON value each file of files_to_merge holds
    loaded,               \* how many of them have been loaded
    merged,               \* the list merged
    category_all          \* the content of category_all.json, an optional

hvars == <<hsrc, hlabel, hpc, hierarchy, visited, current, depth, synset, result, caught, shown,
           walked, listed, tol_requests, taxon_info>>
dvars == <<disk, ds, item>>
evars == <<epc, eidx, dataset, outputs, reasoning, log, correct, total>>
svars == <<spc, made, results, class_predictions, prompt_no, category_outputs,
           category_outputs_all, invalid_count, files>>
tvars == <<call, answer>>
cvars == <<cub, called, maps_run>>
xvars == <<xpc, lineno, gt, gt_to_preds>>
mvars == <<mpc, json_files, loaded, merged, category_all>>
ovars == <<cvars, xvars, mvars>>
vars == <<hvars, dvars, evars, svars, tvars, ovars>>

\* Python's None (and any falsy lookup result) is the empty optional
NoneValue == <<>>
Some(x) == <<x>>

(***************************************************************************)
(* Text helpers                                                            *)
(***************************************************************************)

\* str.lower() on one character of the model's alphabet
LowerChar(c) ==
    CASE c = "A" -> "a"
      [] c = "B" -> "b"
      [] c = "C" -> "c"
      [] OTHER -> c

\* label.lower().replace('_', ' ')
CleanLabel(label) ==
    [i \in 1..Len(label) |->
        IF LowerChar(label[i]) = "_" THEN " " ELSE LowerChar(label[i])]

\* str.split(): the maximal runs of non-whitespace characters, in order
RECURSIVE SplitFrom(_, _, _)
SplitFrom(s, i, word) ==
    IF i > Len(s)
    THEN IF word = <<>> THEN <<>> ELSE <<word>>
    ELSE IF s[i] = " "
         THEN (IF word = <<>> THEN <<>> ELSE <<word>>) \o SplitFrom(s, i + 1, <<>>)
         ELSE SplitFrom(s, i + 1, Append(word, s[i]))

Split(s) == SplitFrom(s, 1, <<>>)

Range(f) == {f[i] : i \in DOMAIN f}

\* sub in s: sub occurs in s as a contiguous run
Contains(s, sub) ==
    \E i \in 0..(Len(s) - Len(sub)) : \A j \in 1..Len(sub) : s[i + j] = sub[j]

\* The labels the builders are called with
Labels == { <<"A", "_", "b">>, <<"B", "i", "r", "d">> }

(***************************************************************************)
(* Hierarchy entries                                                       *)
(***************************************************************************)

\* the fallback entry (clean_label, {clean_label}, 0, 0)
FallbackEntry(label) == <<CleanLabel(label), {CleanLabel(label)}, 0, 0>>

\* caltech_test.py's no-synset return: (clean_label, {clean_label})
ShortEntry(label) == <<CleanLabel(label), {CleanLabel(label)}>>

(***************************************************************************)
(* WordNet: get_wordnet_hierarchy of caltech_test.py ("wordnet_test") and  *)
(* of caltech_wordnet.py ("wordnet").  A synset is the matched word, the   *)
(* number of hypernym steps above the matched synset (up) and the number   *)
(* of ancestors the matched synset has (top).                              *)
(***************************************************************************)

MaxAncestors == 3

Synset(word, up, top) == [word |-> word, up |-> up, top |-> top]

\* synset.hypernyms() + synset.instance_hypernyms()
Hypernyms(s) == IF s.up < s.top THEN <<Synset(s.word, s.up + 1, s.top)>> ELSE <<>>

\* Synset.hypernym_paths() as the nltk corpus reader computes it: the paths
\* of each hypernym, each with the synset itself appended at the end
RECURSIVE HypernymPaths(_)
HypernymPaths(s) ==
    IF Hypernyms(s) = <<>>
    THEN << <<s>> >>
    ELSE LET up == HypernymPaths(Hypernyms(s)[1])
         IN  [j \in 1..Len(up) |-> Append(up[j], s)]

\* hypernym.name().split('.')[0].replace('_', ' ')
SynsetName(s) == s.word \o [i \in 1..s.up |-> "^"]

\* len(list(hypernym.closure(lambda s: s.hyponyms())))
HyponymClosureCount(s) == s.up

\* wn.synsets(clean_label), then wn.synsets(word) for each word in turn
WordnetLookup(clean, known) ==
    IF clean \in known
    THEN Some(clean)
    ELSE LET words == Split(clean)
             hits == {i \in 1..Len(words) : words[i] \in known}
         IN  IF hits = {}
             THEN NoneValue
             ELSE Some(words[CHOOSE i \in hits : \A j \in hits : i <= j])

\* the loop over enumerate(synset.hypernym_paths()[0])
WordnetEntries(s) ==
    LET path == HypernymPaths(s)[1]
    IN  [i \in 1..Len(path) |->
            <<SynsetName(path[i]), {SynsetName(path[i])}, i - 1,
              HyponymClosureCount(path[i])>>]

\* the return taken when no synset is found
WordnetNoSynset(src, label) ==
    IF src = "wordnet_test" THEN <<ShortEntry(label)>> ELSE <<FallbackEntry(label)>>

GetWordnetHierarchy ==
    /\ hpc = "entry"
    /\ hsrc \in {"wordnet_test", "wordnet"}
    /\ \E lookupError \in BOOLEAN :
       \E known \in SUBSET ({CleanLabel(hlabel)} \cup Range(Split(CleanLabel(hlabel)))) :
       \E top \in 0..MaxAncestors :
          IF lookupError
          THEN \* no try block: the LookupError leaves the function
               /\ hpc' = "propagated"
               /\ UNCHANGED <<synset, result>>
          ELSE LET found == WordnetLookup(CleanLabel(hlabel), known)
               IN  IF found = NoneValue
                   THEN /\ result' = WordnetNoSynset(hsrc, hlabel)
                        /\ hpc' = "returned"
                        /\ UNCHANGED synset
                   ELSE /\ synset' = Some(Synset(found[1], 0, top))
                        /\ result' = WordnetEntries(Synset(found[1], 0, top))
                        /\ hpc' = "returned"
    /\ UNCHANGED <<hsrc, hlabel, hierarchy, visited, current, depth, caught, shown>>
    /\ UNCHANGED <<shown, walked, listed, tol_requests, taxon_info, dvars, evars, svars, tvars, ovars>>

(***************************************************************************)
(* The chain walks: build_conceptnet_hierarchy, build_wikidata_hierarchy   *)
(* and build_uby_hierarchy.  Concepts are numbered in the order the walk   *)
(* first meets them: the start concept is 1, and the parent edges of       *)
(* concept k point at a concept met before (1..k) or at the next new one   *)
(* (k + 1).  The service's answer for a concept is chosen when it is       *)
(* queried; a concept is queried at most once per walk.                    *)
(***************************************************************************)

ConceptNetMaxDepth == 10
WikidataMaxDepth == 15
UbyMaxDepth == 15

\* the most edges one answer lists
MaxEdges == 2
\* the concepts (counted from the start) whose labels, aliases and counts vary
MaxVaried == 1

Unary(c, k) == [i \in 1..k |-> c]

\* the concept's name in the source: the label for the start concept
NodeName(label, k) == CleanLabel(label) \o Unary("^", k - 1)
AliasName(label, k) == NodeName(label, k) \o <<"~">>
NodeId(k) == <<"Q">> \o Unary("i", k)
SubCount(k) == k - 1

\* the concepts an edge of concept k may lead to: the start concept, the
\* concept itself, or a concept not yet seen
EdgeTargets(k) == {1, k, k + 1}

\* one listed edge: whether it passes the code's filter and, if so, its target
Edges(k) == {[qual |-> FALSE, target |-> k]} \cup [qual : {TRUE}, target : EdgeTargets(k)]

EdgeLists(k) == UNION { [1..n -> Edges(k)] : n \in 0..MaxEdges }

\* the answers that may vary for concept k
Varied(k) == IF k <= MaxVaried THEN BOOLEAN ELSE {FALSE}

\* FirstQualifying without the break: the last edge that passes is kept
RECURSIVE LastQualifying(_, _)
LastQualifying(edges, i) ==
    IF i > Len(edges) THEN NoneValue
    ELSE LET later == LastQualifying(edges, i + 1)
         IN  IF later # NoneValue THEN later
             ELSE IF edges[i].qual THEN Some(edges[i].target) ELSE NoneValue

RECURSIVE FirstQualifying(_, _)
FirstQualifying(edges, i) ==
    IF i > Len(edges) THEN NoneValue
    ELSE IF edges[i].qual THEN Some(edges[i].target)
    ELSE FirstQualifying(edges, i + 1)

\* the targets of the edges of an answer that pass the code's filter, in order
RECURSIVE ParentsListed(_)
ParentsListed(edges) ==
    IF edges = <<>> THEN <<>>
    ELSE (IF Head(edges).qual THEN <<Head(edges).target>> ELSE <<>>)
         \o ParentsListed(Tail(edges))

\* for edge in data['edges']: start is current_uri and '/c/en/' in end: break
ConceptnetNextUri(edges) == FirstQualifying(edges, 1)
\* for claim in claims['P279']: has mainsnak and datavalue: break
WikidataNextId(edges) == FirstQualifying(edges, 1)
\* for relation in relations: type in ['hypernym', 'broader']: break
UbyNextId(edges) == FirstQualifying(edges, 1)

\* LoopRuns without the visited test
LoopRunsRevisiting(limit) ==
    /\ current # NoneValue
    /\ depth < limit

\* LoopRuns with the depth test off by one (depth <= limit)
LoopRunsDepthInclusive(limit) ==
    /\ current # NoneValue
    /\ current[1] \notin visited
    /\ depth <= limit

\* while current and current not in visited and depth < limit
LoopRuns(limit) ==
    /\ current # NoneValue
    /\ current[1] \notin visited
    /\ depth < limit

WalkInit(start) ==
    /\ hierarchy' = <<>>
    /\ visited' = {}
    /\ current' = start
    /\ depth' = 0

\* CatchAndFallback that returns the entries built so far
CatchAndKeepEntries ==
    /\ caught' = TRUE
    /\ result' = hierarchy
    /\ hpc' = "returned"

\* CatchAndFallback without the try block: the exception leaves the function
NoHandler ==
    /\ hpc' = "propagated"
    /\ UNCHANGED <<caught, result>>

\* except Exception: return [(clean_label, {clean_label}, 0, 0)]
CatchAndFallback ==
    /\ caught' = TRUE
    /\ result' = <<FallbackEntry(hlabel)>>
    /\ hpc' = "returned"

\* ---- ConceptNet

GetConceptnetHierarchy ==
    /\ hpc = "entry"
    /\ hsrc = "conceptnet"
    /\ WalkInit(Some(1))
    /\ hpc' = "walk"
    /\ UNCHANGED <<hsrc, hlabel, synset, result, caught>>
    /\ UNCHANGED <<shown, walked, listed, tol_requests, taxon_info, dvars, evars, svars, tvars, ovars>>

ConceptnetEntry(label, k, d) == <<NodeName(label, k), {NodeName(label, k)}, d, SubCount(k)>>

ConceptnetStep ==
    /\ hpc = "walk"
    /\ hsrc = "conceptnet"
    /\ LoopRuns(ConceptNetMaxDepth)
    /\ \E queryFails \in BOOLEAN : \E edges \in EdgeLists(current[1]) :
          IF queryFails
          THEN \* query_conceptnet raises (HTTP error, malformed edge)
               /\ CatchAndFallback
               /\ UNCHANGED <<hierarchy, visited, current, depth, walked, listed>>
          ELSE /\ visited' = visited \cup {current[1]}
               /\ hierarchy' = Append(hierarchy, ConceptnetEntry(hlabel, current[1], depth))
               /\ walked' = Append(walked, current[1])
               /\ listed' = ParentsListed(edges)
               /\ current' = ConceptnetNextUri(edges)
               /\ depth' = depth + 1
               /\ UNCHANGED <<hpc, result, caught>>
    /\ UNCHANGED <<hsrc, hlabel, synset>>
    /\ UNCHANGED <<shown, tol_requests, taxon_info, dvars, evars, svars, tvars, ovars>>

ConceptnetReturn ==
    /\ hpc = "walk"
    /\ hsrc = "conceptnet"
    /\ ~LoopRuns(ConceptNetMaxDepth)
    /\ result' = hierarchy
    /\ hpc' = "returned"
    /\ UNCHANGED <<hsrc, hlabel, hierarchy, visited, current, depth, synset, caught>>
    /\ UNCHANGED <<shown, walked, listed, tol_requests, taxon_info, dvars, evars, svars, tvars, ovars>>

\* ---- Wikidata

GetWikidataHierarchy ==
    /\ hpc = "entry"
    /\ hsrc = "wikidata"
    /\ \E search \in {"error", "empty", "found"} :
          CASE search = "error" ->
                 /\ CatchAndFallback
                 /\ UNCHANGED <<hierarchy, visited, current, depth>>
            [] search = "empty" ->
                 /\ result' = <<FallbackEntry(hlabel)>>
                 /\ hpc' = "returned"
                 /\ UNCHANGED <<hierarchy, visited, current, depth, caught>>
            [] search = "found" ->
                 /\ WalkInit(Some(1))
                 /\ hpc' = "walk"
                 /\ UNCHANGED <<result, caught>>
    /\ UNCHANGED <<hsrc, hlabel, synset>>
    /\ UNCHANGED <<shown, walked, listed, tol_requests, taxon_info, dvars, evars, svars, tvars, ovars>>

\* get_wikidata_labels_and_aliases
WikidataLabels(label, k, hasLabel, hasAlias) ==
    (IF hasLabel THEN {NodeName(label, k)} ELSE {})
    \cup (IF hasAlias THEN {AliasName(label, k)} ELSE {})

\* list(labels)[0] if labels else current_id: the set's iteration order is
\* not determined by its contents
WikidataConceptNames(labels, k) == IF labels = {} THEN {NodeId(k)} ELSE labels

WikidataStep ==
    /\ hpc = "walk"
    /\ hsrc = "wikidata"
    /\ LoopRuns(WikidataMaxDepth)
    /\ \E entity \in {"error", "empty", "data"} :
       \E noLabel \in Varied(current[1]) : \E hasAlias \in Varied(current[1]) :
       \E countFails \in Varied(current[1]) : \E edges \in EdgeLists(current[1]) :
       LET labels == WikidataLabels(hlabel, current[1], ~noLabel, hasAlias)
       IN
       /\ CASE entity = "error" ->
                 \* get_wikidata_entity raises, or a claim is malformed
                 /\ CatchAndFallback
                 /\ UNCHANGED <<hierarchy, visited, current, depth, walked, listed>>
            [] entity = "empty" ->
                 \* if not entity_data: break, then return hierarchy
                 /\ visited' = visited \cup {current[1]}
                 /\ result' = hierarchy
                 /\ hpc' = "returned"
                 /\ UNCHANGED <<hierarchy, current, depth, caught, walked, listed>>
            [] entity = "data" ->
                 /\ visited' = visited \cup {current[1]}
                 /\ walked' = Append(walked, current[1])
                 /\ listed' = ParentsListed(edges)
                 /\ \E name \in WikidataConceptNames(labels, current[1]) :
                       hierarchy' = Append(hierarchy,
                           <<name, labels, depth,
                             IF countFails THEN 0 ELSE SubCount(current[1])>>)
                 /\ current' = WikidataNextId(edges)
                 /\ depth' = depth + 1
                 /\ UNCHANGED <<hpc, result, caught>>
    /\ UNCHANGED <<hsrc, hlabel, synset>>
    /\ UNCHANGED <<shown, tol_requests, taxon_info, dvars, evars, svars, tvars, ovars>>

WikidataReturn ==
    /\ hpc = "walk"
    /\ hsrc = "wikidata"
    /\ ~LoopRuns(WikidataMaxDepth)
    /\ result' = hierarchy
    /\ hpc' = "returned"
    /\ UNCHANGED <<hsrc, hlabel, hierarchy, visited, current, depth, synset, caught>>
    /\ UNCHANGED <<shown, walked, listed, tol_requests, taxon_info, dvars, evars, svars, tvars, ovars>>

\* ---- UBY (every helper swallows its own request errors)

GetUbyHierarchy ==
    /\ hpc = "entry"
    /\ hsrc = "uby"
    /\ \E entries \in {"none", "no_id", "found"} :
          CASE entries = "none" ->
                 \* search failed or matched nothing: lexical_entries is []
                 /\ result' = <<FallbackEntry(hlabel)>>
                 /\ hpc' = "returned"
                 /\ UNCHANGED <<hierarchy, visited, current, depth>>
            [] entries = "no_id" ->
                 \* the first LexicalEntry element carries no id attribute
                 /\ WalkInit(NoneValue)
                 /\ hpc' = "walk"
                 /\ UNCHANGED result
            [] entries = "found" ->
                 /\ WalkInit(Some(1))
                 /\ hpc' = "walk"
                 /\ UNCHANGED result
    /\ UNCHANGED <<hsrc, hlabel, synset, caught>>
    /\ UNCHANGED <<shown, walked, listed, tol_requests, taxon_info, dvars, evars, svars, tvars, ovars>>

\* get_uby_synset_info(...)['synonyms']: empty when the request fails
UbySynonyms(label, k, infoFails, hasSecond) ==
    IF infoFails THEN {}
    ELSE {NodeName(label, k)} \cup (IF hasSecond THEN {AliasName(label, k)} ELSE {})

\* list(synonyms)[0] if synonyms else current_id
UbyConceptNames(synonyms, k) == IF synonyms = {} THEN {NodeId(k)} ELSE synonyms

UbyStep ==
    /\ hpc = "walk"
    /\ hsrc = "uby"
    /\ LoopRuns(UbyMaxDepth)
    /\ \E infoFails \in Varied(current[1]) : \E hasSecond \in Varied(current[1]) :
       \E countFails \in Varied(current[1]) : \E edges \in EdgeLists(current[1]) :
       LET synonyms == UbySynonyms(hlabel, current[1], infoFails, hasSecond)
       IN
       /\ visited' = visited \cup {current[1]}
       /\ \E name \in UbyConceptNames(synonyms, current[1]) :
             hierarchy' = Append(hierarchy,
                 <<name, synonyms, depth, IF countFails THEN 0 ELSE SubCount(current[1])>>)
       /\ walked' = Append(walked, current[1])
       /\ listed' = ParentsListed(edges)
       /\ current' = UbyNextId(edges)
       /\ depth' = depth + 1
    /\ UNCHANGED <<hsrc, hlabel, hpc, synset, result, caught>>
    /\ UNCHANGED <<shown, tol_requests, taxon_info, dvars, evars, svars, tvars, ovars>>

UbyReturn ==
    /\ hpc = "walk"
    /\ hsrc = "uby"
    /\ ~LoopRuns(UbyMaxDepth)
    /\ result' = hierarchy
    /\ hpc' = "returned"
    /\ UNCHANGED <<hsrc, hlabel, hierarchy, visited, current, depth, synset, caught>>
    /\ UNCHANGED <<shown, walked, listed, tol_requests, taxon_info, dvars, evars, svars, tvars, ovars>>

(***************************************************************************)
(* Tree of Life                                                            *)
(***************************************************************************)

TaxonomicRanks ==
    <<"species", "genus", "family", "order", "class", "phylum", "kingdom", "domain">>

\* a taxon record: each rank is absent, present with an empty name, or named
TaxonRecords == [Range(TaxonomicRanks) -> {"absent", "empty", "named"}]

\* the record search_opentree returns: a match result without rank keys
OpenTreeRecord == [r \in Range(TaxonomicRanks) |-> "absent"]

EstimateTaxonomicSubcategories(rank) ==
    CASE rank = "species" -> 0
      [] rank = "genus" -> 10
      [] rank = "family" -> 100
      [] rank = "order" -> 1000
      [] rank = "class" -> 5000
      [] rank = "phylum" -> 20000
      [] rank = "kingdom" -> 100000
      [] rank = "domain" -> 1000000
      [] OTHER -> 0

\* TaxonomicFrom with the depth counted for skipped ranks too
RECURSIVE TaxonomicCountingSkipped(_, _, _)
TaxonomicCountingSkipped(taxon, i, d) ==
    IF i > Len(TaxonomicRanks) THEN <<>>
    ELSE IF taxon[TaxonomicRanks[i]] = "named"
         THEN << <<<<TaxonomicRanks[i]>>, {<<TaxonomicRanks[i]>>}, d,
                   EstimateTaxonomicSubcategories(TaxonomicRanks[i])>> >>
              \o TaxonomicCountingSkipped(taxon, i + 1, d + 1)
         ELSE TaxonomicCountingSkipped(taxon, i + 1, d + 1)

\* TaxonomicFrom with an entry also for a rank whose name is empty
RECURSIVE TaxonomicKeepingEmpty(_, _, _)
TaxonomicKeepingEmpty(taxon, i, d) ==
    IF i > Len(TaxonomicRanks) THEN <<>>
    ELSE IF taxon[TaxonomicRanks[i]] # "absent"
         THEN << <<<<TaxonomicRanks[i]>>, {<<TaxonomicRanks[i]>>}, d,
                   EstimateTaxonomicSubcategories(TaxonomicRanks[i])>> >>
              \o TaxonomicKeepingEmpty(taxon, i + 1, d + 1)
         ELSE TaxonomicKeepingEmpty(taxon, i + 1, d)

RECURSIVE TaxonomicFrom(_, _, _)
TaxonomicFrom(taxon, i, d) ==
    IF i > Len(TaxonomicRanks) THEN <<>>
    ELSE IF taxon[TaxonomicRanks[i]] = "named"
         THEN << <<<<TaxonomicRanks[i]>>, {<<TaxonomicRanks[i]>>}, d,
                   EstimateTaxonomicSubcategories(TaxonomicRanks[i])>> >>
              \o TaxonomicFrom(taxon, i + 1, d + 1)
         ELSE TaxonomicFrom(taxon, i + 1, d)

BuildTaxonomicHierarchy(taxon) == TaxonomicFrom(taxon, 1, 0)

\* search_tree_of_life: the optional taxon record it returns
SearchTreeOfLife(gbif, opentree, taxon) ==
    CASE gbif = "error" -> (IF opentree THEN Some(OpenTreeRecord) ELSE NoneValue)
      [] gbif = "details" -> Some(taxon)
      [] OTHER -> NoneValue   \* no suggestion, no key, or the details request failed

\* TreeOfLifeRequests that also turns to OpenTree when GBIF answers without a record
RequestsWithWideFallback(gbif, opentree) ==
    IF gbif = "details"
    THEN <<[service |-> "gbif_suggest", outcome |-> "key"],
           [service |-> "gbif_details", outcome |-> "record"]>>
    ELSE <<[service |-> "gbif_suggest", outcome |-> gbif],
           [service |-> "opentree", outcome |-> IF opentree THEN "match" ELSE "nothing"]>>

\* the requests search_tree_of_life makes, with what each yields
TreeOfLifeRequests(gbif, opentree) ==
    CASE gbif = "error" ->
            <<[service |-> "gbif_suggest", outcome |-> "error"],
              [service |-> "opentree", outcome |-> IF opentree THEN "match" ELSE "nothing"]>>
      [] gbif \in {"empty", "no_key"} ->
            <<[service |-> "gbif_suggest", outcome |-> gbif]>>
      [] gbif = "details_failed" ->
            <<[service |-> "gbif_suggest", outcome |-> "key"],
              [service |-> "gbif_details", outcome |-> "error"]>>
      [] OTHER ->
            <<[service |-> "gbif_suggest", outcome |-> "key"],
              [service |-> "gbif_details", outcome |-> "record"]>>

GetTreeOfLifeHierarchy ==
    /\ hpc = "entry"
    /\ hsrc = "tol"
    /\ \E gbif \in {"error", "empty", "no_key", "details_failed", "details"} :
       \E opentree \in BOOLEAN : \E taxon \in TaxonRecords : \E malformed \in BOOLEAN :
       LET info == SearchTreeOfLife(gbif, opentree, taxon)
       IN  /\ tol_requests' = TreeOfLifeRequests(gbif, opentree)
           /\ taxon_info' = info
           /\ IF info = NoneValue
              THEN /\ result' = <<FallbackEntry(hlabel)>>
                   /\ hpc' = "returned"
                   /\ UNCHANGED caught
              ELSE IF malformed
              THEN \* the record is not a mapping: the rank test raises
                   CatchAndFallback
              ELSE /\ result' = BuildTaxonomicHierarchy(info[1])
                   /\ hpc' = "returned"
                   /\ UNCHANGED caught
    /\ UNCHANGED <<hsrc, hlabel, hierarchy, visited, current, depth, synset>>
    /\ UNCHANGED <<shown, walked, listed, dvars, evars, svars, tvars, ovars>>

(***************************************************************************)
(* DBpedia                                                                 *)
(***************************************************************************)

DbClasses == {"Bird", "Animal", "Agent", "Thing"}
\* the most rows a SPARQL answer lists
MaxRows == 3

RowLists(n) == UNION { [1..m -> DbClasses] : m \in 0..n }

DbpediaSubclassCount(c) ==
    CASE c = "Bird" -> 0 [] c = "Animal" -> 2 [] c = "Agent" -> 3 [] OTHER -> 4

DbpediaMaxDepth == 10

\* build_dbpedia_class_entry: label and count fall back when the query fails
BuildDbpediaClassEntry(c, d, sparqlDown) ==
    IF sparqlDown
    THEN <<<<c>>, {<<c>>}, d, 0>>
    ELSE <<<<c, "@en">>, {<<c, "@en">>}, d, DbpediaSubclassCount(c)>>

\* the class an entry of build_dbpedia_class_entry stands for
EntryClass(entry) == entry[1][1]

\* the first type that is neither Thing nor Agent, else the first type
MainType(types) ==
    LET specific == {i \in 1..Len(types) : types[i] \notin {"Thing", "Agent"}}
    IN  IF specific = {} THEN types[1]
        ELSE types[CHOOSE i \in specific : \A j \in specific : i <= j]

RECURSIVE DbpediaSuperclassesFrom(_, _, _, _, _)
DbpediaSuperclassesFrom(rows, i, seen, d, sparqlDown) ==
    IF i > Len(rows) THEN <<>>
    ELSE IF rows[i] \notin seen /\ rows[i] # "Thing"
         THEN <<BuildDbpediaClassEntry(rows[i], d, sparqlDown)>>
              \o (IF d + 1 > DbpediaMaxDepth THEN <<>>
                  ELSE DbpediaSuperclassesFrom(rows, i + 1, seen \cup {rows[i]}, d + 1, sparqlDown))
         ELSE DbpediaSuperclassesFrom(rows, i + 1, seen, d, sparqlDown)

\* the resource name of the URI: the label found, or the title-cased label
\* of the URI constructed when the lookup request fails
ResourceName(label, constructed) ==
    IF constructed THEN <<"T">> \o CleanLabel(label) ELSE CleanLabel(label)

BuildDbpediaHierarchy(label, constructed, types, rows, sparqlDown) ==
    IF types = <<>>
    THEN << <<ResourceName(label, constructed), {ResourceName(label, constructed)}, 0, 0>> >>
    ELSE <<BuildDbpediaClassEntry(MainType(types), 0, sparqlDown)>>
         \o DbpediaSuperclassesFrom(rows, 1, {MainType(types)}, 1, sparqlDown)

GetDbpediaHierarchy ==
    /\ hpc = "entry"
    /\ hsrc = "dbpedia"
    /\ \E search \in {"error", "empty", "found"} : \E malformed \in BOOLEAN :
       \E types \in RowLists(2) : \E rows \in RowLists(MaxRows) : \E sparqlDown \in BOOLEAN :
          IF search = "empty"
          THEN /\ result' = <<FallbackEntry(hlabel)>>
               /\ hpc' = "returned"
               /\ UNCHANGED <<caught, walked, listed>>
          ELSE IF malformed /\ types # <<>>
          THEN \* a type row without the expected keys raises KeyError
               /\ CatchAndFallback
               /\ UNCHANGED <<walked, listed>>
          ELSE /\ result' = BuildDbpediaHierarchy(hlabel, search = "error",
                                IF sparqlDown THEN <<>> ELSE types,
                                IF sparqlDown THEN <<>> ELSE rows, sparqlDown)
               /\ IF sparqlDown \/ types = <<>>
                  THEN UNCHANGED <<walked, listed>>
                  ELSE /\ walked' = [i \in 1..Len(result') |-> EntryClass(result'[i])]
                       /\ listed' = rows
               /\ hpc' = "returned"
               /\ UNCHANGED caught
    /\ UNCHANGED <<hsrc, hlabel, hierarchy, visited, current, depth, synset>>
    /\ UNCHANGED <<shown, tol_requests, taxon_info, dvars, evars, svars, tvars, ovars>>

(***************************************************************************)
(* The calling scripts: the fallback substitution of the UBY, Tree of Life *)
(* and DBpedia blocks, then the loop that unpacks and prints each entry.   *)
(***************************************************************************)

GetUbyHierarchyFallback(label) ==
    << <<CleanLabel(label), {CleanLabel(label)}, 0, 5>>,
       <<CleanLabel(label) \o <<"_category">>,
         {CleanLabel(label) \o <<"_category">>, <<"category">>}, 1, 15>>,
       <<<<"entity">>, {<<"entity">>, <<"thing">>, <<"object">>}, 2, 50>> >>

BiologicalTerms ==
    { <<"a", "n", "i", "m", "a", "l">>, <<"p", "l", "a", "n", "t">>, <<"b", "i", "r", "d">>,
      <<"f", "i", "s", "h">>, <<"i", "n", "s", "e", "c", "t">>, <<"m", "a", "m", "m", "a", "l">> }

GetTreeOfLifeFallback(label) ==
    IF \E term \in BiologicalTerms : Contains(CleanLabel(label), term)
    THEN << <<CleanLabel(label), {CleanLabel(label)}, 0, 0>>,
            <<<<"Genus_unknown">>, {<<"genus">>, <<"unknown genus">>}, 1, 10>>,
            <<<<"Family_unknown">>, {<<"family">>, <<"unknown family">>}, 2, 100>>,
            <<<<"Order_unknown">>, {<<"order">>, <<"unknown order">>}, 3, 1000>>,
            <<<<"Class_unknown">>, {<<"class">>, <<"unknown class">>}, 4, 5000>>,
            <<<<"Phylum_unknown">>, {<<"phylum">>, <<"unknown phylum">>}, 5, 20000>>,
            <<<<"Animalia">>, {<<"Animalia">>, <<"animals">>, <<"kingdom animalia">>}, 6, 100000>>,
            <<<<"Eukaryota">>, {<<"Eukaryota">>, <<"eukaryotes">>, <<"domain eukaryota">>}, 7, 1000000>> >>
    ELSE << <<CleanLabel(label), {CleanLabel(label)}, 0, 0>>,
            <<<<"Unknown taxonomy">>, {<<"unknown">>}, 1, 0>> >>

GetDbpediaHierarchyFallback(label) ==
    << <<CleanLabel(label), {CleanLabel(label)}, 0, 0>>,
       <<<<"Physical Object">>, {<<"Physical Object">>, <<"Object">>}, 1, 100>>,
       <<<<"Thing">>, {<<"Thing">>, <<"Entity">>}, 2, 1000>> >>

\* if len(h) == 1 and h[0][2] == 0: h = fallback(label_name)
ScriptHierarchy(src, label, returned) ==
    IF src \in {"uby", "tol", "dbpedia"} /\ Len(returned) = 1 /\ returned[1][3] = 0
    THEN CASE src = "uby" -> GetUbyHierarchyFallback(label)
           [] src = "tol" -> GetTreeOfLifeFallback(label)
           [] OTHER -> GetDbpediaHierarchyFallback(label)
    ELSE returned

\* the caller's unpacking of one entry succeeds
Unpacks(src, entry) ==
    IF src = "wordnet" THEN Len(entry) \in {2, 4} ELSE Len(entry) = 4

PrintHierarchy ==
    /\ hpc = "returned"
    /\ shown' = ScriptHierarchy(hsrc, hlabel, result)
    /\ hpc' = IF \A i \in 1..Len(shown') : Unpacks(hsrc, shown'[i])
              THEN "printed" ELSE "unpack_error"
    /\ UNCHANGED <<hsrc, hlabel, hierarchy, visited, current, depth, synset, result, caught>>
    /\ UNCHANGED <<walked, listed, tol_requests, taxon_info, dvars, evars, svars, tvars, ovars>>

(***************************************************************************)
(* Dataset adapters: Caltech101 (qwen_caltech_set/caltech101.py) and       *)
(* Flowers102 (hierarchical_datasets/flower102.py).                        *)
(* The disk holds, for Caltech101: whether <root>/101_ObjectCategories     *)
(* exists, the names listed in it, the files of its directories, whether   *)
(* the content is the published one, and the rows of split_coop.csv; for   *)
(* Flowers102: the jpg folder and the state of the two .mat files.         *)
(***************************************************************************)

Background == "BACKGROUND_Google"

\* the names a listing may hold, in the order sorted() gives them
NameOrder == <<"Airplanes", "BACKGROUND_Google", "README", "accordion">>
FileOrder == <<"image_0001.jpg", "notes.txt">>

\* os.path.isdir: README is a plain file of the category folder
IsDir(name) == name # "README"
\* filename.endswith(".jpg")
IsJpg(file) == file = "image_0001.jpg"

\* the files the model's disks may hold, as <<directory, filename>>
PossibleFiles ==
    { <<"Airplanes", "image_0001.jpg">>, <<"Airplanes", "notes.txt">>,
      <<"BACKGROUND_Google", "image_0001.jpg">>, <<"accordion", "image_0001.jpg">> }

SplitNames == {"train", "val", "test"}

\* sorted(names): the members of the set in sorted order
RECURSIVE SortedFrom(_, _, _)
SortedFrom(set, order, i) ==
    IF i > Len(order) THEN <<>>
    ELSE (IF order[i] \in set THEN <<order[i]>> ELSE <<>>) \o SortedFrom(set, order, i + 1)

Sorted(set, order) == SortedFrom(set, order, 1)

\* list.remove(x): the list without the first occurrence of x
RECURSIVE Remove(_, _)
Remove(list, x) ==
    IF list = <<>> THEN <<>>
    ELSE IF Head(list) = x THEN Tail(list)
    ELSE <<Head(list)>> \o Remove(Tail(list), x)

\* {cat: i for i, cat in enumerate(categories)}[name], indices from 0
RECURSIVE IndexOf(_, _)
IndexOf(list, x) == IF Head(list) = x THEN 0 ELSE 1 + IndexOf(Tail(list), x)

\* IndexOf over the listing that still holds the background directory
IndexInListing(list, x) == IndexOf(Sorted(Range(list) \cup {Background}, NameOrder), x)

CategoryToIdx(categories, name) == IndexOf(categories, name)

\* split_df[split_df['split'] == split]['filename'] as a set
SplitFilenames(rows, split) == {r[1] : r \in {q \in rows : q[2] = split}}

\* the inner loop: the .jpg files of one category directory, in sorted
\* order, that the split keeps
RECURSIVE CategoryImages(_, _, _, _)
CategoryImages(d, category, keep, i) ==
    IF i > Len(FileOrder) THEN <<>>
    ELSE LET filename == FileOrder[i]
             path == <<category, filename>>
         IN  (IF /\ path \in d.files
                 /\ IsJpg(filename)
                 /\ (keep = NoneValue \/ path \in keep[1])
              THEN <<path>> ELSE <<>>)
             \o CategoryImages(d, category, keep, i + 1)

\* the outer loop over sorted(os.listdir(.../101_ObjectCategories))
RECURSIVE CollectImages(_, _, _)
CollectImages(d, keep, i) ==
    LET listing == Sorted(d.entries, NameOrder)
    IN  IF i > Len(listing) THEN <<>>
        ELSE (IF listing[i] = Background \/ ~IsDir(listing[i])
              THEN <<>>
              ELSE CategoryImages(d, listing[i], keep, 1))
             \o CollectImages(d, keep, i + 1)

\* KeepFor that never filters
KeepAll(d, split) == NoneValue

\* self.split_filenames for a split argument (None: no filter)
KeepFor(d, split) ==
    IF split = "None" THEN NoneValue ELSE Some(SplitFilenames(d.rows, split))

\* the target types the constructor keeps
RECURSIVE FilterTargetTypes(_)
FilterTargetTypes(types) ==
    IF types = <<>> THEN <<>>
    ELSE (IF Head(types) \in {"category", "annotation"} THEN <<Head(types)>> ELSE <<>>)
         \o FilterTargetTypes(Tail(types))

\* target_type arguments: a string, or a list of strings
TargetTypeArgs ==
    { [isList |-> FALSE, types |-> <<"category">>],
      [isList |-> FALSE, types |-> <<"bogus">>],
      [isList |-> TRUE, types |-> <<"annotation">>],
      [isList |-> TRUE, types |-> <<"category", "annotation">>],
      [isList |-> TRUE, types |-> <<"category", "category">>] }

\* Caltech101._check_integrity
CaltechCheckIntegrity(d) == d.present

\* Caltech101.download: no effect on the disk
CaltechDownload(d) == d

Failed(kind, args) ==
    [kind |-> "caltech", status |-> kind, args |-> args, categories |-> <<>>,
     target_type |-> <<>>, images |-> <<>>, annotations |-> <<>>]

\* Caltech101.__init__: the object built, or the exception raised
CaltechInit(d, args) ==
    IF ~CaltechCheckIntegrity(d) THEN Failed("RuntimeError", args)
    ELSE IF Background \notin d.entries THEN Failed("ValueError", args)
    ELSE IF args.split \notin SplitNames \cup {"None"} THEN Failed("ValueError", args)
    ELSE IF args.split # "None" /\ ~d.splitfile THEN Failed("RuntimeError", args)
    ELSE IF FilterTargetTypes(args.target.types) = <<>> THEN Failed("ValueError", args)
    ELSE LET images == CollectImages(d, KeepFor(d, args.split), 1)
         IN  [kind |-> "caltech", status |-> "ok", args |-> args,
              categories |-> Remove(Sorted(d.entries, NameOrder), Background),
              target_type |-> FilterTargetTypes(args.target.types),
              images |-> images,
              annotations |-> [i \in 1..Len(images) |-> images[i][1]]]

NoDataset == [kind |-> "none"]
NoItem == [index |-> 0, unwrapped |-> FALSE, target |-> <<>>]

CaltechConstruct ==
    /\ ds = NoDataset
    /\ disk.kind = "caltech"
    /\ \E download \in BOOLEAN : \E split \in SplitNames \cup {"None", "bogus"} :
       \E target \in TargetTypeArgs :
       LET args == [download |-> download, split |-> split, target |-> target]
           after == IF download THEN CaltechDownload(disk) ELSE disk
       IN  /\ disk' = after
           /\ ds' = CaltechInit(after, args)
    /\ UNCHANGED item
    /\ UNCHANGED <<hvars, evars, svars, tvars, ovars>>

\* the loop of __getitem__ over self.target_type
RECURSIVE Targets(_, _, _)
Targets(d, types, index) ==
    IF types = <<>> THEN <<>>
    ELSE (IF Head(types) = "category"
          THEN <<CategoryToIdx(d.categories, d.annotations[index + 1])>>
          ELSE <<>>)
         \o Targets(d, Tail(types), index)

\* Caltech101.__getitem__(index): the target returned (unwrapped when the
\* list holds one element)
CaltechGetItem ==
    /\ ds.kind = "caltech"
    /\ ds.status = "ok"
    /\ \E index \in 0..(Len(ds.images) - 1) :
       LET target == Targets(ds, ds.target_type, index)
       IN  item' = [index |-> index, unwrapped |-> Len(target) = 1, target |-> target]
    /\ UNCHANGED <<disk, ds>>
    /\ UNCHANGED <<hvars, evars, svars, tvars, ovars>>

\* ---- Flowers102

\* the content of setid.mat and imagelabels.mat of the model's disks
SetIds == [train |-> <<1>>, val |-> <<2>>, test |-> <<3, 4>>]
ImageLabels == <<1, 2, 2, 1>>

\* Flowers102._check_integrity: the jpg folder exists and both .mat files
\* match their md5
FlowersCheckIntegrity(d) == d.jpgdir /\ d.label = "ok" /\ d.setid = "ok"

\* Flowers102.download when the network answers: archive and files are
\* fetched and verified unless the check already passes
FlowersDownload(d) ==
    IF FlowersCheckIntegrity(d) THEN d
    ELSE [d EXCEPT !.jpgdir = TRUE, !.label = "ok", !.setid = "ok", !.images_intact = TRUE]

FlowersFailed(kind, args) ==
    [kind |-> "flowers", status |-> kind, args |-> args, labels |-> <<>>, image_files |-> <<>>]

\* Flowers102.__init__ after the optional download
FlowersInit(d, args) ==
    IF ~FlowersCheckIntegrity(d) THEN FlowersFailed("RuntimeError", args)
    ELSE LET image_ids == SetIds[args.split]
         IN  [kind |-> "flowers", status |-> "ok", args |-> args,
              labels |-> [i \in 1..Len(image_ids) |-> ImageLabels[image_ids[i]] - 1],
              image_files |-> image_ids]

FlowersConstruct ==
    /\ ds = NoDataset
    /\ disk.kind = "flowers"
    /\ \E download \in BOOLEAN : \E split \in SplitNames \cup {"bogus"} :
       \E network \in BOOLEAN :
       LET args == [download |-> download, split |-> split]
       IN  IF split \notin SplitNames
           THEN \* verify_str_arg
                /\ ds' = FlowersFailed("ValueError", args)
                /\ UNCHANGED disk
           ELSE IF download /\ ~FlowersCheckIntegrity(disk) /\ ~network
           THEN \* the download raises
                /\ ds' = FlowersFailed("DownloadError", args)
                /\ UNCHANGED disk
           ELSE /\ disk' = (IF download THEN FlowersDownload(disk) ELSE disk)
                /\ ds' = FlowersInit(disk', args)
    /\ UNCHANGED item
    /\ UNCHANGED <<hvars, evars, svars, tvars, ovars>>

\* Flowers102.__getitem__(idx)
FlowersGetItem ==
    /\ ds.kind = "flowers"
    /\ ds.status = "ok"
    /\ \E index \in 0..(Len(ds.image_files) - 1) :
          item' = [index |-> index, unwrapped |-> TRUE, target |-> <<ds.labels[index + 1]>>]
    /\ UNCHANGED <<disk, ds>>
    /\ UNCHANGED <<hvars, evars, svars, tvars, ovars>>

(***************************************************************************)
(* evaluate_dataset of qwen_bird/baseline.py.  A text is a sequence of     *)
(* characters; the tags <answer> and </answer> are single elements of it.  *)
(***************************************************************************)

OpenTag == "<answer>"
CloseTag == "</answer>"

IsLetter(c) == c \in {"a", "b", "c", "n", "s", "w", "e", "r"}

\* re.sub(r'[^a-zA-Z\s]', ' ', text.lower()) on one element of the text
NormalizeChar(c) ==
    CASE c = OpenTag -> <<" ", "a", "n", "s", "w", "e", "r", " ">>
      [] c = CloseTag -> <<" ", " ", "a", "n", "s", "w", "e", "r", " ">>
      [] IsLetter(LowerChar(c)) -> <<LowerChar(c)>>
      [] OTHER -> <<" ">>

RECURSIVE Flatten(_)
Flatten(seqs) == IF seqs = <<>> THEN <<>> ELSE Head(seqs) \o Flatten(Tail(seqs))

\* ' '.join(words)
RECURSIVE JoinWords(_)
JoinWords(words) ==
    IF words = <<>> THEN <<>>
    ELSE IF Len(words) = 1 THEN words[1]
    ELSE words[1] \o <<" ">> \o JoinWords(Tail(words))

\* normalize_text
NormalizeText(text) ==
    JoinWords(Split(Flatten([i \in 1..Len(text) |-> NormalizeChar(text[i])])))

\* str.strip()
RECURSIVE Strip(_)
Strip(text) ==
    IF text = <<>> THEN <<>>
    ELSE IF Head(text) \in {" ", "\n"} THEN Strip(Tail(text))
    ELSE IF text[Len(text)] \in {" ", "\n"} THEN Strip(SubSeq(text, 1, Len(text) - 1))
    ELSE text

\* extract_answer_from_tags: the stripped text between the first <answer>
\* and the first </answer> after it, or None
ExtractAnswerFromTags(text) ==
    LET opens == {i \in 1..Len(text) : text[i] = OpenTag}
    IN  IF opens = {} THEN NoneValue
        ELSE LET o == CHOOSE i \in opens : \A j \in opens : i <= j
                 closes == {i \in (o + 1)..Len(text) : text[i] = CloseTag}
             IN  IF closes = {} THEN NoneValue
                 ELSE LET c == CHOOSE i \in closes : \A j \in closes : i <= j
                      IN  Some(Strip(SubSeq(text, o + 1, c - 1)))

\* CheckAccuracy with the containment test turned round
CheckAccuracySwapped(ground_truth, prediction) ==
    Contains(NormalizeText(ground_truth), NormalizeText(prediction))

\* check_accuracy
CheckAccuracy(ground_truth, prediction) ==
    Contains(NormalizeText(prediction), NormalizeText(ground_truth))

\* class_names_dict
ClassNames == << <<"a">>, <<"B", " ", "a">> >>
ClassName(label) == ClassNames[label + 1]

\* the texts model.predict may return
Predictions ==
    { <<"a">>,
      <<"B", ".", "a", ".">>,
      <<"c">>,
      <<OpenTag, " ", "a", " ", CloseTag>>,
      <<"a", " ", OpenTag, "c", CloseTag>>,
      <<"b", "-", "a", OpenTag, "c">>,
      <<OpenTag, "c", CloseTag, OpenTag, "a", CloseTag>> }

\* PredictionForCheck that checks the whole output in either mode
WholeOutputForCheck(is_reasoning, prediction) == Some(prediction)

\* the text checked: the extracted answer in reasoning mode, else the prediction
PredictionForCheck(is_reasoning, prediction) ==
    IF is_reasoning THEN ExtractAnswerFromTags(prediction) ELSE Some(prediction)

\* is_correct
IsCorrect(ground_truth, checked) ==
    IF checked = NoneValue THEN FALSE ELSE CheckAccuracy(ground_truth, checked[1])

\* the record written with the text that was checked
CheckedRecord(idx, ground_truth, prediction, checked, is_correct, c, t) ==
    [type |-> "record", idx |-> idx, ground_truth |-> ground_truth,
     prediction |-> IF checked = NoneValue THEN <<"N", "o", "n", "e">> ELSE checked[1],
     correct |-> is_correct, running |-> <<c, t>>]

\* the five lines written for one sample
SampleRecord(idx, ground_truth, prediction, checked, is_correct, c, t) ==
    [type |-> "record", idx |-> idx, ground_truth |-> ground_truth,
     prediction |-> prediction, correct |-> is_correct, running |-> <<c, t>>]

\* CountCorrect that counts every sample
CountEvery(count, is_correct) == count + 1

\* if is_correct: correct += 1
CountCorrect(count, is_correct) == IF is_correct THEN count + 1 ELSE count

\* with open(output_file, "w"): the header lines
EvalWriteHeader ==
    /\ epc = "start"
    /\ log' = <<[type |-> "header"]>>
    /\ epc' = "loop"
    /\ UNCHANGED <<eidx, dataset, outputs, reasoning, correct, total>>
    /\ UNCHANGED <<hvars, dvars, svars, tvars, ovars>>

\* one iteration of for idx, sample in enumerate(dataset)
EvalSample ==
    /\ epc = "loop"
    /\ eidx < Len(dataset)
    /\ \E prediction \in Predictions :
       LET ground_truth == ClassName(dataset[eidx + 1])
           checked == PredictionForCheck(reasoning, prediction)
           is_correct == IsCorrect(ground_truth, checked)
           c == CountCorrect(correct, is_correct)
       IN  /\ outputs' = Append(outputs, prediction)
           /\ correct' = c
           /\ total' = total + 1
           /\ log' = Append(log, SampleRecord(eidx, ground_truth, prediction, checked,
                                              is_correct, c, total + 1))
    /\ eidx' = eidx + 1
    /\ UNCHANGED <<epc, dataset, reasoning>>
    /\ UNCHANGED <<hvars, dvars, svars, tvars, ovars>>

\* the summary line and the return; correct/total raises on an empty dataset
EvalSummary ==
    /\ epc = "loop"
    /\ eidx = Len(dataset)
    /\ IF total = 0
       THEN /\ epc' = "zero_division"
            /\ UNCHANGED log
       ELSE /\ epc' = "returned"
            /\ log' = Append(log, [type |-> "summary", correct |-> correct, total |-> total])
    /\ UNCHANGED <<eidx, dataset, outputs, reasoning, correct, total>>
    /\ UNCHANGED <<hvars, dvars, svars, tvars, ovars>>

(***************************************************************************)
(* Idle values of the parts a specification does not run                   *)
(***************************************************************************)

HierIdle ==
    /\ hsrc = "none" /\ hlabel = <<>> /\ hpc = "idle"
    /\ hierarchy = <<>> /\ visited = {} /\ current = NoneValue /\ depth = 0
    /\ synset = NoneValue /\ result = <<>> /\ caught = FALSE /\ shown = <<>>
    /\ walked = <<>> /\ listed = <<>> /\ tol_requests = <<>> /\ taxon_info = NoneValue

DataIdle == disk = [kind |-> "none"] /\ ds = NoDataset /\ item = NoItem

EvalIdle ==
    /\ epc = "idle" /\ eidx = 0 /\ dataset = <<>> /\ outputs = <<>>
    /\ reasoning = FALSE /\ log = <<>> /\ correct = 0 /\ total = 0

ScriptIdle ==
    /\ spc = "idle" /\ made = <<>> /\ results = <<>> /\ class_predictions = <<>>
    /\ prompt_no = 0 /\ category_outputs = <<>> /\ category_outputs_all = <<>>
    /\ invalid_count = 0 /\ files = <<>>

TextIdle == call = [fn |-> "none"] /\ answer = NoneValue

CropIdle == cub = [kind |-> "none"] /\ called = <<>> /\ maps_run = 0

ExtractIdle == xpc = "idle" /\ lineno = 0 /\ gt = NoneValue /\ gt_to_preds = <<>>

MergeIdle ==
    /\ mpc = "idle" /\ json_files = <<>> /\ loaded = 0 /\ merged = <<>>
    /\ category_all = NoneValue

OtherIdle == CropIdle /\ ExtractIdle /\ MergeIdle

(***************************************************************************)
(* SpecHier: one call of one hierarchy builder, then the script's printing *)
(***************************************************************************)

Sources == {"wordnet_test", "wordnet", "conceptnet", "wikidata", "uby", "tol", "dbpedia"}

InitHier ==
    /\ hsrc \in Sources
    /\ hlabel \in Labels
    /\ hpc = "entry"
    /\ hierarchy = <<>> /\ visited = {} /\ current = NoneValue /\ depth = 0
    /\ synset = NoneValue /\ result = <<>> /\ caught = FALSE /\ shown = <<>>
    /\ walked = <<>> /\ listed = <<>> /\ tol_requests = <<>> /\ taxon_info = NoneValue
    /\ DataIdle
    /\ EvalIdle
    /\ ScriptIdle
    /\ TextIdle
    /\ OtherIdle

NextHier ==
    \/ GetWordnetHierarchy
    \/ GetConceptnetHierarchy
    \/ ConceptnetStep
    \/ ConceptnetReturn
    \/ GetWikidataHierarchy
    \/ WikidataStep
    \/ WikidataReturn
    \/ GetUbyHierarchy
    \/ UbyStep
    \/ UbyReturn
    \/ GetTreeOfLifeHierarchy
    \/ GetDbpediaHierarchy
    \/ PrintHierarchy

SpecHier == InitHier /\ [][NextHier]_vars

(***************************************************************************)
(* Claims about the hierarchy builders (checked under SpecHier)            *)
(***************************************************************************)

\* C1: every entry of every returned list is a 4-tuple, on every path, so
\* the caller's 4-way unpacking never fails.
C1_EntriesAreFourTuples ==
    /\ \A i \in 1..Len(result) : Len(result[i]) = 4
    /\ hpc # "unpack_error"

\* C2: the list get_wordnet_hierarchy returns runs from the matched synset
\* (depth 0) through its successive hypernyms to the root.
C2_WordnetSpecificToGeneral ==
    (hpc = "returned" /\ hsrc \in {"wordnet_test", "wordnet"} /\ synset # NoneValue) =>
        /\ Len(result) = synset[1].top + 1
        /\ \A i \in 1..Len(result) :
              /\ result[i][1] = SynsetName(Synset(synset[1].word, i - 1, synset[1].top))
              /\ result[i][3] = i - 1

WalkLimit ==
    CASE hsrc = "conceptnet" -> ConceptNetMaxDepth
      [] hsrc = "wikidata" -> WikidataMaxDepth
      [] OTHER -> UbyMaxDepth

IsWalker == hsrc \in {"conceptnet", "wikidata", "uby"}

WalkStops == current = NoneValue \/ current[1] \in visited \/ depth >= WalkLimit

\* C3 (state part): the lists hold at most 10 (ConceptNet) and 15 (Wikidata,
\* UBY) entries, and some step of the walk can always be taken.
C3_Bounded ==
    IsWalker =>
        /\ Len(hierarchy) <= WalkLimit
        /\ Len(result) <= WalkLimit
        /\ depth <= WalkLimit
        /\ hpc = "walk" => ENABLED NextHier

\* C3 (step part): every iteration raises depth by one, and no iteration is
\* run once the concept is missing, was visited, or the limit is reached.
C3_Progress ==
    (IsWalker /\ hpc = "walk" /\ hpc' = "walk") =>
        /\ ~WalkStops
        /\ depth' = depth + 1
        /\ Len(hierarchy') = Len(hierarchy) + 1

\* C3: for any parent relation, cyclic or unboundedly long, the chain walks
\* terminate with at most 10 / 15 / 15 entries, stopping as soon as the
\* current concept has no parent, was visited, or the depth limit is reached.
C3_WalksTerminate == []C3_Bounded /\ [][C3_Progress]_vars

\* a walk over a chain longer than the limit, cut off by the depth limit
C3_Witness ==
    /\ hsrc = "wikidata" /\ hpc = "returned" /\ ~caught
    /\ Len(result) = WikidataMaxDepth
    /\ current # NoneValue /\ current[1] \notin visited

\* C4 (as stated): no builder, WordNet included, lets an exception reach its caller.
C4_NoBuilderPropagates == hpc # "propagated"

\* C4 (amended): every builder other than get_wordnet_hierarchy catches the
\* exception and returns the one-entry fallback list.
C4_HandlersCatch ==
    /\ hsrc \notin {"wordnet_test", "wordnet"} => hpc # "propagated"
    /\ caught => /\ hpc \in {"returned", "printed"}
                 /\ result = <<FallbackEntry(hlabel)>>

\* a ConceptNet query failed after two entries were built
C4_Witness ==
    /\ caught /\ hsrc = "conceptnet" /\ hpc = "returned" /\ Len(hierarchy) = 2

(***************************************************************************)
(* SpecData: one construction of a dataset over some disk, then reads      *)
(***************************************************************************)

\* the most rows of split_coop.csv
MaxSplitRows == 3

StandardRows ==
    { <<<<"Airplanes", "image_0001.jpg">>, "train">>,
      <<<<"accordion", "image_0001.jpg">>, "test">> }

\* disks that vary in what the category folder holds
CaltechDisks ==
    { d \in [kind : {"caltech"}, present : BOOLEAN, entries : SUBSET Range(NameOrder),
             files : SUBSET PossibleFiles, intact : BOOLEAN, splitfile : BOOLEAN,
             rows : {StandardRows}] :
        /\ \A f \in d.files : f[1] \in d.entries
        /\ ~d.present => (d.entries = {} /\ d.files = {}) }

\* complete disks that vary in the split file
SplitDisks ==
    { [kind |-> "caltech", present |-> TRUE, entries |-> Range(NameOrder),
       files |-> PossibleFiles, intact |-> TRUE, splitfile |-> TRUE, rows |-> rows] :
        rows \in {r \in SUBSET (PossibleFiles \X SplitNames) : Cardinality(r) <= MaxSplitRows} }

FlowersDisks ==
    [kind : {"flowers"}, jpgdir : BOOLEAN, label : {"missing", "corrupt", "ok"},
     setid : {"missing", "corrupt", "ok"}, images_intact : BOOLEAN]

InitData ==
    /\ disk \in CaltechDisks \cup SplitDisks \cup FlowersDisks
    /\ ds = NoDataset
    /\ item = NoItem
    /\ HierIdle
    /\ EvalIdle
    /\ ScriptIdle
    /\ TextIdle
    /\ OtherIdle

NextData ==
    \/ CaltechConstruct
    \/ CaltechGetItem
    \/ FlowersConstruct
    \/ FlowersGetItem

SpecData == InitData /\ [][NextData]_vars

(***************************************************************************)
(* Claims about the dataset adapters (checked under SpecData)              *)
(***************************************************************************)

CaltechLoaded == ds.kind = "caltech" /\ ds.status = "ok"

\* C5: with target_type 'category', dataset[i] is a label l with
\* 0 <= l < len(categories) and categories[l] the directory holding image i;
\* the background directory shifts no label.
C5_CategoryLabel ==
    (/\ CaltechLoaded
     /\ ds.args.target = [isList |-> FALSE, types |-> <<"category">>]
     /\ item # NoItem) =>
        /\ item.unwrapped
        /\ item.target[1] \in 0..(Len(ds.categories) - 1)
        /\ ds.images[item.index + 1] \in disk.files
        /\ ds.categories[item.target[1] + 1] = ds.images[item.index + 1][1]
        /\ Background \notin Range(ds.categories)

\* an image of a category sorted after the background directory was read
C5_Witness ==
    /\ CaltechLoaded
    /\ ds.args.target = [isList |-> FALSE, types |-> <<"category">>]
    /\ item # NoItem
    /\ ds.images[item.index + 1][1] = "accordion"
    /\ {"Airplanes", "README"} \subseteq disk.entries
    /\ item.target = <<2>>

\* the .jpg files of the non-background category directories that the split keeps
SplitSamples(d, split) ==
    { f \in d.files :
        /\ f[1] \in d.entries /\ f[1] # Background /\ IsDir(f[1])
        /\ IsJpg(f[2])
        /\ (split = "None" \/ <<f, split>> \in d.rows) }

\* the split file assigns each filename to one split
OneSplitEach(rows) == \A r1 \in rows : \A r2 \in rows : r1[1] = r2[1] => r1[2] = r2[2]

LoadedFor(d, split) == Range(CollectImages(d, KeepFor(d, split), 1))

\* C6: a dataset built with split s holds exactly the listed .jpg files of
\* the non-background directories (all of them for split=None), each once;
\* if each filename has one split, train, val and test are pairwise
\* disjoint subsets of the split=None samples.
C6_SplitSamples ==
    /\ CaltechLoaded =>
          /\ Range(ds.images) = SplitSamples(disk, ds.args.split)
          /\ Cardinality(Range(ds.images)) = Len(ds.images)
    /\ (disk.kind = "caltech" /\ OneSplitEach(disk.rows)) =>
          \A s1 \in SplitNames : \A s2 \in SplitNames :
             /\ LoadedFor(disk, s1) \subseteq LoadedFor(disk, "None")
             /\ s1 # s2 => LoadedFor(disk, s1) \cap LoadedFor(disk, s2) = {}

\* the train split was built from a disk whose other .jpg file is in test
C6_Witness ==
    /\ CaltechLoaded
    /\ ds.args.split = "train"
    /\ OneSplitEach(disk.rows)
    /\ ds.images = << <<"Airplanes", "image_0001.jpg">> >>
    /\ LoadedFor(disk, "test") = { <<"accordion", "image_0001.jpg">> }
    /\ <<<<"BACKGROUND_Google", "image_0001.jpg">>, "train">> \in disk.rows

\* C7: with target_type given as a list, the target holds one element per
\* listed type, in the order given.
C7_ListTargetPerType ==
    (CaltechLoaded /\ ds.args.target.isList /\ item # NoItem) =>
        /\ ~item.unwrapped
        /\ Len(item.target) = Len(ds.args.target.types)

\* C8: download=True on a root without the dataset puts the dataset there,
\* so that the integrity check passes.
C8_DownloadMakesPresent ==
    (ds.kind = "caltech" /\ ds.args.download) =>
        /\ CaltechCheckIntegrity(disk)
        /\ ~(ds.status = "RuntimeError" /\ ds.args.split = "None")

ValidCaltechArgs ==
    /\ ds.args.split \in SplitNames \cup {"None"}
    /\ FilterTargetTypes(ds.args.target.types) # <<>>

\* C9: construction raises RuntimeError, and loads no samples, whenever a
\* required file is missing or its content does not match its checksum.
C9_IntegrityByChecksum ==
    /\ (/\ ds.kind = "caltech" /\ ValidCaltechArgs
        /\ (~disk.present \/ ~disk.intact)
        /\ (disk.present => Background \in disk.entries)) =>
          (ds.status = "RuntimeError" /\ ds.images = <<>>)
    /\ (/\ ds.kind = "flowers" /\ ds.args.split \in SplitNames
        /\ ds.status # "DownloadError"
        /\ (~disk.jpgdir \/ disk.label # "ok" \/ disk.setid # "ok")) =>
          (ds.status = "RuntimeError" /\ ds.image_files = <<>>)

(***************************************************************************)
(* SpecEval: one call of evaluate_dataset                                  *)
(***************************************************************************)

\* the most samples of a dataset
MaxSamples == 3

Datasets == UNION { [1..n -> 0..(Len(ClassNames) - 1)] : n \in 0..MaxSamples }

InitEval ==
    /\ epc = "start"
    /\ eidx = 0
    /\ dataset \in Datasets
    /\ outputs = <<>>
    /\ reasoning \in BOOLEAN
    /\ log = <<>>
    /\ correct = 0
    /\ total = 0
    /\ HierIdle
    /\ DataIdle
    /\ ScriptIdle
    /\ TextIdle
    /\ OtherIdle

NextEval ==
    \/ EvalWriteHeader
    \/ EvalSample
    \/ EvalSummary

SpecEval == InitEval /\ [][NextEval]_vars

(***************************************************************************)
(* Claims about evaluate_dataset (checked under SpecEval)                  *)
(***************************************************************************)

\* the prediction records of the file, in file order
RECURSIVE RecordsOf(_)
RecordsOf(file) ==
    IF file = <<>> THEN <<>>
    ELSE (IF Head(file).type = "record" THEN <<Head(file)>> ELSE <<>>) \o RecordsOf(Tail(file))

\* C10 (state part): one record per processed sample, in dataset order, with
\* the sample index, the ground-truth name, the raw model output and the
\* correctness boolean that was counted.
C10_OneRecordPerSample ==
    LET records == RecordsOf(log)
    IN  /\ Len(records) = eidx
        /\ Len(outputs) = eidx
        /\ \A i \in 1..Len(records) :
              /\ records[i].idx = i - 1
              /\ records[i].ground_truth = ClassName(dataset[i])
              /\ records[i].prediction = outputs[i]
        /\ Cardinality({i \in 1..Len(records) : records[i].correct}) = correct
        /\ epc \in {"returned", "zero_division"} => Len(records) = Len(dataset)

\* C10 (step part): what was written stays as written
C10_AppendOnly ==
    /\ Len(log') >= Len(log)
    /\ \A i \in 1..Len(log) : log'[i] = log[i]

\* C10: evaluate_dataset writes exactly one prediction record per sample, in
\* dataset order, holding index, ground truth, raw output (also in reasoning
\* mode) and correctness; a written record is never changed or removed.
C10_PredictionLog == []C10_OneRecordPerSample /\ [][C10_AppendOnly]_vars

\* a reasoning run logged an output whose answer tags hold only part of it
C10_Witness ==
    /\ reasoning
    /\ epc = "returned"
    /\ Len(dataset) = 3
    /\ log[3].prediction = <<"a", " ", OpenTag, "c", CloseTag>>
    /\ ~log[3].correct
    /\ log[2].correct

(***************************************************************************)
(* The evaluation scripts: qwen_bird_open/baseline.py ("open"),            *)
(* qwen_bird_open/collect_label.py ("collect") and                         *)
(* qwen_caltech_set/qwen_caltech_set.py ("set").  made counts, per class   *)
(* index, the predictions the model has returned for samples of the class. *)
(***************************************************************************)

Classes == 0..(Len(ClassNames) - 1)
NoneMade == [c \in Classes |-> 0]

\* Extend that replaces what the key held
Overwrite(dict, key, values) ==
    [k \in DOMAIN dict \cup {key} |-> IF k = key THEN values ELSE dict[k]]

\* class_predictions[ground_truth].append / .extend, creating the key first
Extend(dict, key, values) ==
    IF key \in DOMAIN dict THEN [dict EXCEPT ![key] = @ \o values]
    ELSE [k \in DOMAIN dict \cup {key} |-> IF k = key THEN values ELSE dict[k]]

\* f.write / json.dump to a file opened with "w"
WriteFile(fs, name, content) ==
    [n \in DOMAIN fs \cup {name} |-> IF n = name THEN content ELSE fs[n]]

\* qwen_bird_open/baseline.py: one iteration of the prediction loop
OpenSample ==
    /\ spc = "open_loop"
    /\ eidx < Len(dataset)
    /\ \E prediction \in Predictions :
       LET ground_truth == ClassName(dataset[eidx + 1])
       IN  /\ results' = Append(results, [index |-> eidx, prediction |-> prediction,
                                          ground_truth |-> ground_truth])
           /\ class_predictions' = Extend(class_predictions, ground_truth, <<prediction>>)
           /\ made' = [made EXCEPT ![dataset[eidx + 1]] = @ + 1]
    /\ eidx' = eidx + 1
    /\ UNCHANGED <<spc, prompt_no, category_outputs, category_outputs_all, invalid_count, files>>
    /\ UNCHANGED <<epc, dataset, outputs, reasoning, log, correct, total>>
    /\ UNCHANGED <<hvars, dvars, tvars, ovars>>

\* qwen_bird_open/baseline.py and collect_label.py: the two json.dump calls
SavePredictions ==
    /\ spc \in {"open_loop", "collect_loop"}
    /\ eidx = Len(dataset)
    /\ files' = WriteFile(WriteFile(files, <<"predictions">>, results),
                          <<"perclass_predictions">>, class_predictions)
    /\ spc' = "done"
    /\ UNCHANGED <<made, results, class_predictions, prompt_no, category_outputs,
                   category_outputs_all, invalid_count>>
    /\ UNCHANGED <<evars, hvars, dvars, tvars, ovars>>

\* the sequences predict_multiple returns for one sample
NumReturnSequences == 2
SampledPredictions == { <<"a">>, <<"c">> }

\* collect_label.py: one iteration of the sampling loop
CollectSample ==
    /\ spc = "collect_loop"
    /\ eidx < Len(dataset)
    /\ \E predictions \in [1..NumReturnSequences -> SampledPredictions] :
       LET ground_truth == ClassName(dataset[eidx + 1])
       IN  /\ results' = Append(results, [index |-> eidx, predictions |-> predictions,
                                          ground_truth |-> ground_truth])
           /\ class_predictions' = Extend(class_predictions, ground_truth, predictions)
           /\ made' = [made EXCEPT ![dataset[eidx + 1]] = @ + Len(predictions)]
    /\ eidx' = eidx + 1
    /\ UNCHANGED <<spc, prompt_no, category_outputs, category_outputs_all, invalid_count, files>>
    /\ UNCHANGED <<epc, dataset, outputs, reasoning, log, correct, total>>
    /\ UNCHANGED <<hvars, dvars, tvars, ovars>>

\* ---- qwen_caltech_set.py

\* the prompts modelled, of the prompts dict
NumPrompts == 2
\* prompts: (prompt_text, is_reasoning) by position
Prompts == [i \in 1..NumPrompts |-> [name |-> i, is_reasoning |-> FALSE]]

\* dataset.categories
Categories == << <<"a">>, <<"c", "_", "b">> >>
Category(label) == Categories[label + 1]

\* the texts model.predict may return to this script
SetOutputs == { <<"a">>, <<"b", ".", "c">>, <<"a", "c">> }

\* {cat: set() for cat in dataset.categories}
EmptyOutputs == [cat \in Range(Categories) |-> {}]

\* the words of a text: text.split() as a set
Words(text) == Range(Split(text))

\* LabelInPrediction by substring instead of whole words
LabelAsSubstring(label, prediction) ==
    Contains(NormalizeText(prediction), NormalizeText(label))

\* label_in_prediction
LabelInPrediction(label, prediction) ==
    LET label_words == Split(NormalizeText(label))
        pred_words == Split(NormalizeText(prediction))
    IN  IF Len(label_words) = 1
        THEN label_words[1] \in Range(pred_words)
        ELSE \A i \in 1..Len(label_words) : label_words[i] \in Range(pred_words)

\* correct / total if total > 0 else 0.0, as a fraction
Accuracy(c, t) == IF t > 0 THEN <<c, t>> ELSE <<0, 1>>

\* the answer a reasoning prompt's output is cut down to ("" without tags)
AnswerOrEmpty(prediction) ==
    LET found == ExtractAnswerFromTags(prediction)
    IN  IF found = NoneValue THEN <<>> ELSE found[1]

\* AddTo that adds the value under every key
AddToEvery(dict, key, value) == [k \in DOMAIN dict |-> dict[k] \cup {value}]

\* dict[key].add(value)
AddTo(dict, key, value) == [dict EXCEPT ![key] = @ \cup {value}]

\* the top of the loop over prompts: the per-prompt locals
SetStartPrompt ==
    /\ spc = "set_prompt"
    /\ prompt_no <= Len(Prompts)
    /\ category_outputs' = EmptyOutputs
    /\ invalid_count' = 0
    /\ correct' = 0
    /\ total' = 0
    /\ eidx' = 0
    /\ spc' = "set_loop"
    /\ UNCHANGED <<made, results, class_predictions, prompt_no, category_outputs_all, files>>
    /\ UNCHANGED <<epc, dataset, outputs, reasoning, log>>
    /\ UNCHANGED <<hvars, dvars, tvars, ovars>>

\* one iteration of for idx, (image, label) in enumerate(dataset)
SetSample ==
    /\ spc = "set_loop"
    /\ eidx < Len(dataset)
    /\ \E output \in SetOutputs :
       LET is_reasoning == Prompts[prompt_no].is_reasoning
           prediction == IF is_reasoning THEN AnswerOrEmpty(output) ELSE output
           invalid == is_reasoning /\ ExtractAnswerFromTags(output) = NoneValue
           ground_truth == Category(dataset[eidx + 1])
           is_correct == LabelInPrediction(ground_truth, prediction)
       IN  /\ invalid_count' = IF invalid THEN invalid_count + 1 ELSE invalid_count
           /\ category_outputs' = AddTo(category_outputs, ground_truth, prediction)
           /\ category_outputs_all' = AddTo(category_outputs_all, ground_truth, prediction)
           /\ total' = total + 1
           /\ correct' = IF is_correct THEN correct + 1 ELSE correct
           /\ made' = [made EXCEPT ![dataset[eidx + 1]] = @ + 1]
    /\ eidx' = eidx + 1
    /\ UNCHANGED <<spc, results, class_predictions, prompt_no, files>>
    /\ UNCHANGED <<epc, dataset, outputs, reasoning, log>>
    /\ UNCHANGED <<hvars, dvars, tvars, ovars>>

\* json.dump of the prompt's output_data, then the next prompt
SetSavePrompt ==
    /\ spc = "set_loop"
    /\ eidx = Len(dataset)
    /\ LET accuracy == Accuracy(correct, total)
           output_data ==
               IF Prompts[prompt_no].is_reasoning
               THEN [category_outputs |-> category_outputs,
                     invalid_count |-> Some(invalid_count), accuracy |-> accuracy]
               ELSE [category_outputs |-> category_outputs,
                     invalid_count |-> NoneValue, accuracy |-> accuracy]
       IN  files' = WriteFile(files, <<"predictions", prompt_no>>, output_data)
    /\ prompt_no' = prompt_no + 1
    /\ spc' = "set_prompt"
    /\ UNCHANGED <<made, results, class_predictions, category_outputs,
                   category_outputs_all, invalid_count>>
    /\ UNCHANGED <<evars, hvars, dvars, tvars, ovars>>

\* after all prompts: category_outputs_all.json
SetSaveAll ==
    /\ spc = "set_prompt"
    /\ prompt_no > Len(Prompts)
    /\ files' = WriteFile(files, <<"category_outputs_all">>, category_outputs_all)
    /\ spc' = "done"
    /\ UNCHANGED <<made, results, class_predictions, prompt_no, category_outputs,
                   category_outputs_all, invalid_count>>
    /\ UNCHANGED <<evars, hvars, dvars, tvars, ovars>>

(***************************************************************************)
(* SpecRuns: one run of one evaluation driver                              *)
(***************************************************************************)

\* the most samples of the dataset of qwen_caltech_set.py
MaxSetSamples == 2

SetDatasets == UNION { [1..n -> Classes] : n \in 0..MaxSetSamples }

\* the state before the loop of the named script
InitScript(name, datasets) ==
    /\ spc = name
    /\ epc = "idle"
    /\ eidx = 0
    /\ dataset \in datasets
    /\ outputs = <<>>
    /\ reasoning = FALSE
    /\ log = <<>>
    /\ correct = 0
    /\ total = 0
    /\ made = NoneMade
    /\ results = <<>>
    /\ class_predictions = <<>>
    /\ invalid_count = 0
    /\ files = <<>>
    /\ IF name = "set_prompt"
       THEN prompt_no = 1 /\ category_outputs = <<>> /\ category_outputs_all = EmptyOutputs
       ELSE prompt_no = 0 /\ category_outputs = <<>> /\ category_outputs_all = <<>>
    /\ HierIdle
    /\ DataIdle
    /\ TextIdle
    /\ OtherIdle

InitRuns ==
    \/ InitEval
    \/ InitScript("open_loop", Datasets)
    \/ InitScript("collect_loop", Datasets)
    \/ InitScript("set_prompt", SetDatasets)

NextRuns ==
    \/ EvalWriteHeader
    \/ EvalSample
    \/ EvalSummary
    \/ OpenSample
    \/ CollectSample
    \/ SavePredictions
    \/ SetStartPrompt
    \/ SetSample
    \/ SetSavePrompt
    \/ SetSaveAll

SpecRuns == InitRuns /\ [][NextRuns]_vars

(***************************************************************************)
(* Claims about the evaluation drivers (checked under SpecRuns)            *)
(***************************************************************************)

\* the number of samples of class c among the first n samples
SamplesOf(c, n) == Cardinality({i \in 1..n : dataset[i] = c})

\* the length of the list a per-class file holds for a name (0 without the key)
ListedFor(dict, name) == IF name \in DOMAIN dict THEN Len(dict[name]) ELSE 0

\* evaluate_dataset returned: one logged record per prediction made, per class
EvalPersisted ==
    epc = "returned" =>
        \A c \in Classes :
            Cardinality({i \in 1..Len(log) :
                            log[i].type = "record" /\ log[i].ground_truth = ClassName(c)})
                = SamplesOf(c, Len(outputs))

\* qwen_bird_open/baseline.py or collect_label.py finished: the per-sample file
\* holds one record per sample and the per-class file every prediction made
ListsPersisted ==
    (spc = "done" /\ <<"perclass_predictions">> \in DOMAIN files) =>
        /\ Len(files[<<"predictions">>]) = Len(dataset)
        /\ \A c \in Classes :
              ListedFor(files[<<"perclass_predictions">>], ClassName(c)) = made[c]

\* C11 as stated: when a driver has written its files, the number of
\* predictions persisted for a class equals the number of predictions made
\* for the samples of that class -- for qwen_caltech_set.py as well.
C11_PersistedPerSample ==
    /\ EvalPersisted
    /\ ListsPersisted
    /\ (spc = "done" /\ <<"category_outputs_all">> \in DOMAIN files) =>
          \A c \in Classes :
              Cardinality(files[<<"category_outputs_all">>][Category(c)]) = made[c]

\* C11 amended: the equality holds for qwen_bird/baseline.py,
\* qwen_bird_open/baseline.py and collect_label.py; qwen_caltech_set.py
\* persists per category the set of distinct prediction texts, so the number
\* persisted is at most the number made and is 0 only when none was made.
C11_PersistedOrDistinct ==
    /\ EvalPersisted
    /\ ListsPersisted
    /\ (spc = "done" /\ <<"category_outputs_all">> \in DOMAIN files) =>
          \A c \in Classes :
              LET kept == Cardinality(files[<<"category_outputs_all">>][Category(c)])
              IN  /\ kept <= made[c]
                  /\ (kept = 0) = (made[c] = 0)
                  /\ \A p \in 1..Len(Prompts) :
                        files[<<"predictions", p>>].category_outputs[Category(c)]
                            \subseteq files[<<"category_outputs_all">>][Category(c)]

\* qwen_caltech_set.py finished with two predictions made for a class and one
\* text persisted for it
C11_Witness ==
    /\ spc = "done"
    /\ <<"category_outputs_all">> \in DOMAIN files
    /\ made[0] = 2
    /\ Cardinality(files[<<"category_outputs_all">>][Category(0)]) = 1

(***************************************************************************)
(* SpecText: check_accuracy and label_in_prediction called on their own    *)
(***************************************************************************)

\* the longest label and prediction text
MaxTextLen == 3

TextsOver(alphabet) == UNION { [1..n -> alphabet] : n \in 0..MaxTextLen }

\* the ground-truth labels and the predictions the functions are called with
LabelTexts == TextsOver({"a", "B", " ", "."})
PredictionTexts == TextsOver({"a", "b", " ", "."})

InitText ==
    /\ call \in [fn : {"check_accuracy", "label_in_prediction"},
                 label : LabelTexts, prediction : PredictionTexts]
    /\ answer = NoneValue
    /\ HierIdle
    /\ DataIdle
    /\ EvalIdle
    /\ ScriptIdle
    /\ OtherIdle

\* baseline.py: check_accuracy(ground_truth, prediction)
CallCheckAccuracy ==
    /\ call.fn = "check_accuracy"
    /\ answer = NoneValue
    /\ answer' = Some(CheckAccuracy(call.label, call.prediction))
    /\ UNCHANGED <<call, hvars, dvars, evars, svars, ovars>>

\* qwen_caltech_set.py: label_in_prediction(label, prediction)
CallLabelInPrediction ==
    /\ call.fn = "label_in_prediction"
    /\ answer = NoneValue
    /\ answer' = Some(LabelInPrediction(call.label, call.prediction))
    /\ UNCHANGED <<call, hvars, dvars, evars, svars, ovars>>

NextText ==
    \/ CallCheckAccuracy
    \/ CallLabelInPrediction

SpecText == InitText /\ [][NextText]_vars

(***************************************************************************)
(* Claims about the text functions (checked under SpecText)                *)
(***************************************************************************)

\* the normalisation as the claim words it, by one left-to-right scan: the
\* letters lower-cased, every run of other characters between two letters
\* one space, nothing before the first letter or after the last
RECURSIVE ScanFrom(_, _, _, _)
ScanFrom(text, i, out, gap) ==
    IF i > Len(text) THEN out
    ELSE IF LowerChar(text[i]) \in {"a", "b", "c"}
         THEN ScanFrom(text, i + 1,
                       (IF gap /\ out # <<>> THEN Append(out, " ") ELSE out)
                           \o <<LowerChar(text[i])>>,
                       FALSE)
         ELSE ScanFrom(text, i + 1, out, TRUE)

Scanned(text) == ScanFrom(text, 1, <<>>, FALSE)

\* the text with the case of every letter changed
OtherCase(text) ==
    [i \in 1..Len(text) |->
        CASE text[i] = "a" -> "A"
          [] text[i] = "b" -> "B"
          [] text[i] = "B" -> "b"
          [] OTHER -> text[i]]

\* the text with every punctuation character replaced by a space
Unpunctuated(text) == [i \in 1..Len(text) |-> IF text[i] = "." THEN " " ELSE text[i]]

\* C12: check_accuracy is true exactly when the normalized ground truth is a
\* contiguous substring of the normalized prediction, and the result is the
\* same for arguments that differ only in letter case or in which
\* non-letter characters separate the letters.
C12_CheckAccuracy ==
    (call.fn = "check_accuracy" /\ answer # NoneValue) =>
        /\ answer[1] = Contains(Scanned(call.prediction), Scanned(call.label))
        /\ answer[1] = CheckAccuracy(OtherCase(call.label), call.prediction)
        /\ answer[1] = CheckAccuracy(call.label, OtherCase(call.prediction))
        /\ answer[1] = CheckAccuracy(Unpunctuated(call.label), call.prediction)
        /\ answer[1] = CheckAccuracy(call.label, Unpunctuated(call.prediction))

\* a ground truth in upper case with punctuation found in a lower-case prediction
C12_Witness ==
    /\ call.fn = "check_accuracy"
    /\ call.label = <<"B", ".", "a">>
    /\ call.prediction = <<"b", " ", "a">>
    /\ answer = Some(TRUE)

\* C13: label_in_prediction is true exactly when every word of the
\* normalized label is one of the words of the normalized prediction (whole
\* words, any order, not necessarily adjacent).
C13_LabelInPrediction ==
    (call.fn = "label_in_prediction" /\ answer # NoneValue) =>
        answer[1] = (Words(Scanned(call.label)) \subseteq Words(Scanned(call.prediction)))

\* a two-word label found with its words in the other order, or a one-word
\* label refused although a longer word of the prediction contains it
C13_Witness ==
    /\ call.fn = "label_in_prediction"
    /\ \/ /\ call.label = <<"a", ".", "B">>
          /\ call.prediction = <<"b", " ", "a">>
          /\ answer = Some(TRUE)
       \/ /\ call.label = <<"a">>
          /\ call.prediction = <<"a", "b">>
          /\ answer = Some(FALSE)

(***************************************************************************)
(* Further claims about the hierarchy builders (checked under SpecHier)    *)
(***************************************************************************)

\* what the named request of the Tree of Life lookup yielded, if it was made
Yielded(service) ==
    {tol_requests[i].outcome : i \in {j \in 1..Len(tol_requests) : tol_requests[j].service = service}}

\* the GBIF lookup was made and gave no taxon record
GbifWithoutRecord ==
    /\ tol_requests # <<>>
    /\ Yielded("gbif_details") # {"record"}

\* C14 as stated: whenever the GBIF lookup yields no taxon record (request
\* error, no suggestion, suggestion without key, failed details request),
\* search_opentree is queried before search_tree_of_life returns.
C14_OpenTreeWheneverGbifFails ==
    GbifWithoutRecord => Yielded("opentree") # {}

\* C14 amended: search_opentree is queried exactly when the GBIF suggest
\* request raises; when GBIF answers with no suggestion, with a suggestion
\* without key, or the details request fails, search_tree_of_life returns
\* None without querying OpenTree and the caller returns the fallback entry.
C14_OpenTreeOnlyOnError ==
    tol_requests # <<>> =>
        /\ (Yielded("opentree") # {}) = (Yielded("gbif_suggest") = {"error"})
        /\ (GbifWithoutRecord /\ Yielded("gbif_suggest") # {"error"}) =>
              (result = <<FallbackEntry(hlabel)>> /\ ~caught)

\* GBIF answered with an empty suggestion list and OpenTree was not queried
C14_Witness ==
    /\ hsrc = "tol"
    /\ hpc = "returned"
    /\ Yielded("gbif_suggest") = {"empty"}
    /\ Yielded("opentree") = {}
    /\ result = <<FallbackEntry(hlabel)>>

\* no element occurs twice in the sequence
NoRepeat(seq) == \A i, j \in 1..Len(seq) : i # j => seq[i] # seq[j]

\* C16: in the lists built by the ConceptNet, Wikidata, UBY and DBpedia
\* builders no concept identifier is represented by more than one entry,
\* also when the parent relation has self-loops or longer cycles.
C16_NoConceptTwice ==
    /\ hsrc \in {"conceptnet", "wikidata", "uby"} =>
          /\ Len(walked) = Len(hierarchy)
          /\ NoRepeat(walked)
          /\ Range(walked) \subseteq visited
    /\ (hsrc = "dbpedia" /\ hpc = "returned" /\ ~caught) =>
          NoRepeat([i \in 1..Len(result) |-> result[i][1]])

\* a walk of three concepts returned because the parent listed first for
\* the third is the start concept
C16_Witness ==
    /\ hsrc \in {"conceptnet", "wikidata", "uby"}
    /\ hpc = "returned"
    /\ walked = <<1, 2, 3>>
    /\ current = Some(1)
    /\ Len(result) = 3

\* C17 (state part): the first entry is the start concept, and a walk that
\* returned its list stopped because the latest concept listed no parent,
\* the parent it listed first was already visited, or the limit was reached.
C17_FirstParentEnds ==
    IsWalker =>
        /\ walked # <<>> => walked[1] = 1
        /\ (hpc = "returned" /\ ~caught /\ walked # <<>>) =>
              \/ listed = <<>>
              \/ listed[1] \in visited
              \/ depth >= WalkLimit

\* C17 (step part): the concept of each further entry is the parent that the
\* answer for the entry before it listed first.
C17_NextIsFirstParent ==
    (IsWalker /\ walked # <<>> /\ Len(walked') = Len(walked) + 1) =>
        /\ listed # <<>>
        /\ walked'[Len(walked')] = listed[1]

\* C17: the ConceptNet, Wikidata and UBY walks start at the start concept and
\* follow only the first parent edge listed for each entry; a walk ends when
\* that first parent was already visited even if another parent was not.
C17_FollowsFirstParent == []C17_FirstParentEnds /\ [][C17_NextIsFirstParent]_vars

\* a walk that ended at a visited first parent although the same answer
\* listed a second parent that was not visited
C17_Witness ==
    /\ IsWalker
    /\ hpc = "returned"
    /\ ~caught
    /\ Len(walked) = 2
    /\ Len(listed) = 2
    /\ listed[1] \in visited
    /\ listed[2] \notin visited
    /\ result = hierarchy

\* the ontology the DBpedia answers are taken from: Bird is a subclass of
\* Animal, Animal of Agent, Agent of Thing
DbRank(c) == CASE c = "Bird" -> 1 [] c = "Animal" -> 2 [] c = "Agent" -> 3 [] OTHER -> 4

\* the rows of the superclass query for class c: c and its superclasses
\* within the DBpedia ontology namespace (owl:Thing is outside it)
DbSuperclassRows(c) == {d \in DbClasses : DbRank(d) >= DbRank(c) /\ d # "Thing"}

\* the order ORDER BY ?superClass gives the class URIs
DbUriOrder == <<"Agent", "Animal", "Bird", "Thing">>

\* C18: when the superclass query answers with exactly the superclasses of
\* the main type, in the order its ORDER BY clause gives them (one of the
\* orders the claim speaks of), the list starts with the main type and every
\* later entry is a superclass of the entry immediately before it.
C18_DbpediaSpecificToGeneral ==
    (/\ hsrc = "dbpedia" /\ hpc = "returned" /\ ~caught
     /\ walked # <<>>
     /\ listed = Sorted(DbSuperclassRows(walked[1]), DbUriOrder)) =>
        \A i \in 1..(Len(walked) - 1) : DbRank(walked[i + 1]) > DbRank(walked[i])

\* the depth field of every four-field entry of the list is its position
DepthIsPosition(list) ==
    \A i \in 1..Len(list) : Len(list[i]) = 4 => list[i][3] = i - 1

\* C19: in every list a hierarchy builder builds or returns, and in every
\* list a script prints (the fallback lists among them), the entry at
\* position i has depth i: depths start at 0 and have no gaps.
C19_DepthIsPosition ==
    /\ DepthIsPosition(hierarchy)
    /\ DepthIsPosition(result)
    /\ DepthIsPosition(shown)

\* a taxonomic list built from a record without species and family: the
\* genus entry has depth 0 and the order entry depth 1
C19_Witness ==
    /\ hsrc = "tol"
    /\ hpc = "returned"
    /\ Len(result) >= 2
    /\ result[1][1] = <<"genus">> /\ result[1][3] = 0
    /\ result[2][1] = <<"order">> /\ result[2][3] = 1

\* the label lower-cased with underscores replaced by spaces, written out
\* for the labels of the model
LowerSpaced(label) ==
    IF label = <<"A", "_", "b">> THEN <<"a", " ", "b">> ELSE <<"b", "i", "r", "d">>

\* C20: when a ConceptNet query or a Wikidata entity request failed during
\* the call, at whatever step, get_conceptnet_hierarchy /
\* get_wikidata_hierarchy returns exactly [(clean_label, {clean_label}, 0, 0)];
\* the entries built before the failure are not returned.
C20_FailureGivesFallback ==
    (hsrc \in {"conceptnet", "wikidata"} /\ caught) =>
        /\ hpc \in {"returned", "printed"}
        /\ result = << <<LowerSpaced(hlabel), {LowerSpaced(hlabel)}, 0, 0>> >>

\* a ConceptNet query failed after two entries had been built
C20_Witness ==
    /\ hsrc = "conceptnet"
    /\ caught
    /\ hpc = "returned"
    /\ Len(hierarchy) = 2
    /\ hlabel = <<"A", "_", "b">>
    /\ result = << <<<<"a", " ", "b">>, {<<"a", " ", "b">>}, 0, 0>> >>

(***************************************************************************)
(* Further claims about evaluate_dataset (checked under SpecEval)          *)
(***************************************************************************)

\* the text has an <answer> with a </answer> somewhere after it
HasAnswerPair(text) ==
    \E i, j \in 1..Len(text) : i < j /\ text[i] = OpenTag /\ text[j] = CloseTag

\* the text between the first <answer> and the first </answer> after it
InsideFirstPair(text) ==
    LET o == CHOOSE i \in 1..Len(text) :
                 text[i] = OpenTag /\ \A k \in 1..(i - 1) : text[k] # OpenTag
        c == CHOOSE j \in (o + 1)..Len(text) :
                 text[j] = CloseTag /\ \A k \in (o + 1)..(j - 1) : text[k] # CloseTag
    IN  SubSeq(text, o + 1, c - 1)

\* C15: in reasoning mode a sample whose output has no <answer>...</answer>
\* pair is marked incorrect, and with a pair the mark is the check of the
\* text inside the first pair alone; correct counts the marked samples.
C15_ReasoningJudgesTaggedAnswer ==
    reasoning =>
        /\ \A i \in 1..Len(outputs) :
              log[i + 1].correct =
                  (/\ HasAnswerPair(outputs[i])
                   /\ Contains(Scanned(InsideFirstPair(outputs[i])),
                               Scanned(ClassName(dataset[i]))))
        /\ correct = Cardinality({i \in 1..Len(outputs) : log[i + 1].correct})

\* a reasoning run judged incorrect an output that names the ground truth
\* outside the tags, and one that names it without any pair
C15_Witness ==
    /\ reasoning
    /\ Len(outputs) >= 2
    /\ dataset[1] = 0 /\ dataset[2] = 0
    /\ outputs[1] = <<"a", " ", OpenTag, "c", CloseTag>>
    /\ outputs[2] = <<"b", "-", "a", OpenTag, "c">>
    /\ ~log[2].correct /\ ~log[3].correct
    /\ correct = 0

(***************************************************************************)
(* Claims about the Tree of Life builder, the script-level fallbacks and   *)
(* the lists the builders return.                                          *)
(***************************************************************************)

\* the taxon record build_taxonomic_hierarchy was given and read without error
TaxonBuilt ==
    /\ hsrc = "tol"
    /\ hpc \in {"returned", "printed", "unpack_error"}
    /\ taxon_info # NoneValue
    /\ ~caught

\* the position of a rank name in species, genus, ..., domain (0 if it is none)
RankPosition(name) ==
    IF \E i \in 1..Len(TaxonomicRanks) : <<TaxonomicRanks[i]>> = name
    THEN CHOOSE i \in 1..Len(TaxonomicRanks) : <<TaxonomicRanks[i]>> = name
    ELSE 0

\* C21: build_taxonomic_hierarchy emits one entry per rank that the taxon
\* record holds with a non-empty name, in the order species, genus, family,
\* order, class, phylum, kingdom, domain, skipping the other ranks; the
\* subcategory-count estimates of the entries are strictly increasing along
\* the list.
C21_OneEntryPerNamedRank ==
    TaxonBuilt =>
        LET named == {i \in 1..Len(TaxonomicRanks) : taxon_info[1][TaxonomicRanks[i]] = "named"}
        IN  /\ Len(result) = Cardinality(named)
            /\ {RankPosition(result[i][1]) : i \in 1..Len(result)} = named
            /\ \A i \in 1..Len(result) - 1 :
                   /\ RankPosition(result[i][1]) < RankPosition(result[i + 1][1])
                   /\ result[i][4] < result[i + 1][4]

\* a record with a named rank, an absent one and an empty one between named ones
C21_Witness ==
    /\ TaxonBuilt
    /\ Len(result) >= 3
    /\ taxon_info[1]["species"] = "absent"
    /\ taxon_info[1]["genus"] = "named"
    /\ taxon_info[1]["family"] = "empty"
    /\ taxon_info[1]["order"] = "named"
    /\ taxon_info[1]["class"] = "absent"
    /\ result[1][1] = <<"genus">> /\ result[2][1] = <<"order">>

\* the service answered the lookup and the list returned was built from its answer
ServiceReturned ==
    /\ ~caught
    /\ \/ hsrc = "tol" /\ taxon_info # NoneValue /\ result # <<>>
       \/ hsrc \in {"uby", "dbpedia"} /\ walked # <<>>

\* C22: the script replaces the list of the UBY, Tree of Life or DBpedia
\* builder by the simulated fallback only when the service was not available
\* or found nothing; a list built from the service's answer, also one of a
\* single concept, is printed as returned.
C22_FallbackOnlyWhenNothingFound ==
    (hpc = "printed" /\ hsrc \in {"uby", "tol", "dbpedia"} /\ ServiceReturned) => shown = result

\* C23: every get_*_hierarchy function returns a non-empty list, for every
\* label and every answer of the external source: also when the search finds
\* an identifier and the walk yields no entry, the list holds at least the
\* entry of the label.
C23_ReturnsNonEmptyList ==
    hpc \in {"returned", "printed", "unpack_error"} => result # <<>>

\* C24: the concept name of a build_wikidata_hierarchy entry is the English
\* main label of its entity whenever the entity has one, never one of its
\* aliases, so the names of the list are determined by the Wikidata answers.
C24_NameIsMainLabel ==
    hsrc = "wikidata" =>
        \A i \in 1..Len(hierarchy) :
            NodeName(hlabel, walked[i]) \in hierarchy[i][2] =>
                hierarchy[i][1] = NodeName(hlabel, walked[i])

(***************************************************************************)
(* CUB200Dataset (qwen_bird/dataset.py).  A dataset object is an identity  *)
(* and its rows; a row is an example with its image (0: the whole image,   *)
(* b: the image cropped to box b) and its bbox.  CUB_200.map builds a new  *)
(* object; an exception raised by it leaves get_dataset_cropped and, no    *)
(* caller handling it, ends the script.                                    *)
(***************************************************************************)

\* the most examples a dataset holds, and the most calls made on an instance
MaxExamples == 2
MaxCalls == 4

Boxes == {1, 2}

Examples == [image : {0}, bbox : Boxes]

\* load_dataset(..., split=split)
LoadDataset(rows) == [id |-> 0, rows |-> rows]

\* crop_image
CropImage(example) == [example EXCEPT !.image = example.bbox]

\* dataset.map(crop_image, ...): a new dataset object
Map(data, n) == [id |-> n, rows |-> [i \in 1..Len(data.rows) |-> CropImage(data.rows[i])]]

\* NeedsMap that forgets the cache
AlwaysMaps(self) == TRUE

\* if self._cropped_dataset is None
NeedsMap(self) == self.cropped_dataset = NoneValue

\* the script is still running: no call has raised
Running == IF called = <<>> THEN TRUE ELSE ~called[Len(called)].raised

GetDataset ==
    /\ Running
    /\ Len(called) < MaxCalls
    /\ called' = Append(called, [method |-> "get_dataset", raised |-> FALSE,
                                     value |-> Some(cub.CUB_200)])
    /\ UNCHANGED <<cub, maps_run>>
    /\ UNCHANGED <<hvars, dvars, evars, svars, tvars, xvars, mvars>>

GetDatasetCropped ==
    /\ Running
    /\ Len(called) < MaxCalls
    /\ IF NeedsMap(cub)
       THEN /\ maps_run' = maps_run + 1
            /\ \E fails \in BOOLEAN :
                  IF fails
                  THEN /\ called' = Append(called, [method |-> "get_dataset_cropped",
                                                        raised |-> TRUE, value |-> NoneValue])
                       /\ UNCHANGED cub
                  ELSE /\ cub' = [cub EXCEPT !.cropped_dataset =
                                                Some(Map(cub.CUB_200, maps_run + 1))]
                       /\ called' = Append(called, [method |-> "get_dataset_cropped",
                                                        raised |-> FALSE,
                                                        value |-> cub'.cropped_dataset])
       ELSE /\ called' = Append(called, [method |-> "get_dataset_cropped",
                                             raised |-> FALSE, value |-> cub.cropped_dataset])
            /\ UNCHANGED <<cub, maps_run>>
    /\ UNCHANGED <<hvars, dvars, evars, svars, tvars, xvars, mvars>>

\* CUB200Dataset(split): the instance after __init__
InitCrop ==
    /\ \E split \in {"train", "test"} : \E n \in 1..MaxExamples : \E rows \in [1..n -> Examples] :
          cub = [kind |-> split, CUB_200 |-> LoadDataset(rows), cropped_dataset |-> NoneValue]
    /\ called = <<>>
    /\ maps_run = 0
    /\ HierIdle
    /\ DataIdle
    /\ EvalIdle
    /\ ScriptIdle
    /\ TextIdle
    /\ ExtractIdle
    /\ MergeIdle

NextCrop ==
    \/ GetDataset
    \/ GetDatasetCropped

SpecCrop == InitCrop /\ [][NextCrop]_vars

\* the calls of one method that called
Calls(method) ==
    {i \in 1..Len(called) : called[i].method = method /\ ~called[i].raised}

\* C25: over any sequence of get_dataset and get_dataset_cropped calls on one
\* instance the cropping map is executed at most once, every
\* get_dataset_cropped call returns the same cached object (the cropped rows
\* of CUB_200), and get_dataset keeps returning the original, uncropped
\* dataset.
C25_CroppedIsCached ==
    cub.kind # "none" =>
        /\ maps_run <= 1
        /\ \A i, j \in Calls("get_dataset_cropped") : called[i].value = called[j].value
        /\ \A i \in Calls("get_dataset_cropped") :
               /\ called[i].value = cub.cropped_dataset
               /\ called[i].value[1].id # cub.CUB_200.id
               /\ \A k \in 1..Len(cub.CUB_200.rows) :
                      /\ called[i].value[1].rows[k].image = cub.CUB_200.rows[k].bbox
                      /\ called[i].value[1].rows[k].bbox = cub.CUB_200.rows[k].bbox
        /\ \A i \in Calls("get_dataset") :
               /\ called[i].value = Some(cub.CUB_200)
               /\ cub.CUB_200.id = 0
               /\ \A k \in 1..Len(cub.CUB_200.rows) : cub.CUB_200.rows[k].image = 0

\* two cropped calls with a get_dataset call after the first of them
C25_Witness ==
    /\ maps_run = 1
    /\ Len(called) = 4
    /\ called[1].method = "get_dataset"
    /\ called[2].method = "get_dataset_cropped"
    /\ called[3].method = "get_dataset"
    /\ called[4].method = "get_dataset_cropped"
    /\ ~called[4].raised
    /\ Len(cub.CUB_200.rows) = 2

(***************************************************************************)
(* Further claims about evaluate_dataset's counters and the empty dataset  *)
(***************************************************************************)

\* the sample evaluate_dataset processes next is judged correct
JudgedCorrect ==
    IsCorrect(ClassName(dataset[eidx + 1]), PredictionForCheck(reasoning, outputs'[eidx + 1]))

C26_Counters ==
    epc # "idle" =>
        /\ total = eidx
        /\ 0 <= correct /\ correct <= total
        /\ epc = "returned" => total = Len(dataset)

C26_CountsJudged ==
    eidx' = eidx + 1 =>
        /\ total' = total + 1
        /\ correct' = IF JudgedCorrect THEN correct + 1 ELSE correct

\* C26: in evaluate_dataset, after k samples have been processed total is k
\* and 0 <= correct <= total; correct grows by exactly 1 on a sample judged
\* correct and is unchanged otherwise; the function returns with total the
\* number of samples of the dataset.
C26_CorrectAndTotal == []C26_Counters /\ [][C26_CountsJudged]_vars

\* a returned run that judged one sample correct and another one not
C26_Witness ==
    /\ epc = "returned"
    /\ total = Len(dataset) /\ total >= 2
    /\ 0 < correct /\ correct < total
    /\ \E i, j \in 1..Len(log) :
          /\ log[i].type = "record" /\ log[i].correct
          /\ log[j].type = "record" /\ ~log[j].correct

\* C27: the evaluation drivers handle an empty dataset without error:
\* evaluate_dataset writes its header and its summary and returns (0, 0), and
\* qwen_caltech_set.py writes accuracy 0.0 for the prompt; nothing divides by
\* zero.
C27_EmptyDatasetHandled ==
    dataset = <<>> =>
        /\ epc # "zero_division"
        /\ epc \notin {"idle", "start", "loop"} =>
               /\ epc = "returned" /\ correct = 0 /\ total = 0
               /\ log = <<[type |-> "header"], [type |-> "summary", correct |-> 0, total |-> 0]>>
        /\ \A p \in 1..Len(Prompts) :
               <<"predictions", p>> \in DOMAIN files =>
                   files[<<"predictions", p>>].accuracy = <<0, 1>>

(***************************************************************************)
(* Further claims about qwen_caltech_set.py (checked under SpecRuns)       *)
(***************************************************************************)

\* the run is one of qwen_caltech_set.py, and is past the locals of a prompt
InSetScript == prompt_no >= 1
InSetRun == InSetScript /\ (prompt_no > 1 \/ spc = "set_loop")

\* the sets a prompt's file holds for a category
SavedFor(p, cat) == files[<<"predictions", p>>].category_outputs[cat]

C28_SubsetAndKeys ==
    /\ InSetScript => DOMAIN category_outputs_all = Range(Categories)
    /\ InSetRun =>
           /\ DOMAIN category_outputs = Range(Categories)
           /\ \A cat \in Range(Categories) :
                  category_outputs[cat] \subseteq category_outputs_all[cat]
    /\ (InSetScript /\ spc = "done") =>
           /\ files[<<"category_outputs_all">>] = category_outputs_all
           /\ \A cat \in Range(Categories) :
                  category_outputs_all[cat] =
                      UNION {SavedFor(p, cat) : p \in 1..Len(Prompts)}

C28_AddedUnderGroundTruth ==
    (spc = "set_loop" /\ eidx' = eidx + 1) =>
        \A cat \in Range(Categories) :
            IF cat = Category(dataset[eidx + 1])
            THEN \E prediction \in SetOutputs \cup {<<>>} :
                    /\ category_outputs'[cat] = category_outputs[cat] \cup {prediction}
                    /\ category_outputs_all'[cat] = category_outputs_all[cat] \cup {prediction}
            ELSE /\ category_outputs'[cat] = category_outputs[cat]
                 /\ category_outputs_all'[cat] = category_outputs_all[cat]

\* C28: in qwen_caltech_set.py, at every point of the run and for every
\* category c, category_outputs[c] is a subset of category_outputs_all[c];
\* each prediction is added only under the ground-truth category of its
\* sample; after the last prompt category_outputs_all[c] is the union over
\* the prompts of the prompt's category_outputs[c], and its keys are exactly
\* the dataset's categories.
C28_PromptSetsWithinAll == []C28_SubsetAndKeys /\ [][C28_AddedUnderGroundTruth]_vars

\* the run is over, and two prompts saved different sets for a category
C28_Witness ==
    /\ InSetScript
    /\ spc = "done"
    /\ \E cat \in Range(Categories) :
          /\ SavedFor(1, cat) # SavedFor(2, cat)
          /\ SavedFor(1, cat) # {} /\ SavedFor(2, cat) # {}
          /\ category_outputs_all[cat] # SavedFor(1, cat)
          /\ category_outputs_all[cat] # SavedFor(2, cat)

(***************************************************************************)
(* extract_gt_pred_dict.py (qwen_bird_closed/outputs), reading a file that *)
(* evaluate_dataset wrote for the original dataset.  The file is a text of *)
(* one-character strings; the fixed words evaluate_dataset writes, among   *)
(* them "Ground truth:" and "Prediction:", are single elements of it.  The *)
(* digits of the date and of the accuracies are not modelled.              *)
(***************************************************************************)

GroundTruthTag == "Ground truth:"
PredictionTag == "Prediction:"

\* the most samples of a logged run
MaxLogged == 2

\* the texts model.predict returned in the logged run
LoggedPredictions ==
    { <<"a">>,
      <<"c">>,
      <<" ", "a">>,
      <<"a", "\n", "c">>,
      <<"a", " ", PredictionTag, " ", "c">>,
      <<"c", "\n", GroundTruthTag, " ", "a", "\n", PredictionTag, " ", "c">> }

\* the records evaluate_dataset writes from sample i on, then the summary
RECURSIVE WrittenFrom(_, _, _, _)
WrittenFrom(data, outs, i, count) ==
    IF i > Len(data)
    THEN IF Len(data) = 0 THEN <<>>
         ELSE <<[type |-> "summary", correct |-> count, total |-> Len(data)]>>
    ELSE LET ground_truth == ClassName(data[i])
             checked == PredictionForCheck(FALSE, outs[i])
             is_correct == IsCorrect(ground_truth, checked)
         IN  <<SampleRecord(i - 1, ground_truth, outs[i], checked, is_correct,
                            CountCorrect(count, is_correct), i)>>
             \o WrittenFrom(data, outs, i + 1, CountCorrect(count, is_correct))

\* the records of the file after evaluate_dataset(data, ...) with these outputs
WrittenLog(data, outs) == <<[type |-> "header"]>> \o WrittenFrom(data, outs, 1, 0)

\* the text f.write puts into the file for one record
RecordText(r) ==
    CASE r.type = "header" ->
            <<"Original Dataset Predictions - ", "\n", "=", "\n", "\n">>
      [] r.type = "record" ->
            <<"Sample ", ToString(r.idx), ":", "\n">>
            \o <<GroundTruthTag, " ">> \o r.ground_truth \o <<"\n">>
            \o <<PredictionTag, " ">> \o r.prediction \o <<"\n">>
            \o <<"Correct: ", IF r.correct THEN "True" ELSE "False", "\n">>
            \o <<"Running accuracy: ", ToString(r.running[1]), "/", ToString(r.running[2]), "\n">>
            \o <<"-", "\n", "\n">>
      [] OTHER ->
            <<"\n", "Original dataset accuracy: ", ToString(r.correct), "/",
              ToString(r.total), "\n">>

FileText(file) == Flatten([i \in 1..Len(file) |-> RecordText(file[i])])

\* for line in f: the lines of a text, each with its newline
RECURSIVE LinesFrom(_, _, _)
LinesFrom(text, i, line) ==
    IF i > Len(text) THEN (IF line = <<>> THEN <<>> ELSE <<line>>)
    ELSE IF text[i] = "\n" THEN <<Append(line, "\n")>> \o LinesFrom(text, i + 1, <<>>)
    ELSE LinesFrom(text, i + 1, Append(line, text[i]))

\* the lines of pred_file
PredFile == LinesFrom(FileText(log), 1, <<>>)

\* line.startswith(tag)
StartsWith(line, tag) == IF line = <<>> THEN FALSE ELSE line[1] = tag

\* text.split(tag)[1]: what stands between the first tag and the next one
AfterFirst(text, tag) ==
    LET at == {i \in 1..Len(text) : text[i] = tag}
        first == CHOOSE i \in at : \A j \in at : i <= j
        later == {i \in at : i > first}
        next == IF later = {} THEN Len(text) + 1
                ELSE CHOOSE i \in later : \A j \in later : i <= j
    IN  SubSeq(text, first + 1, next - 1)

\* Field without the two strip calls
FieldUnstripped(line, tag) == AfterFirst(line, tag)

\* line.strip().split(tag)[1].strip()
Field(line, tag) == Strip(AfterFirst(Strip(line), tag))

\* gt_to_preds[key].add(value) on a defaultdict(set)
AddDefault(dict, key, value) ==
    [k \in DOMAIN dict \cup {key} |->
        (IF k \in DOMAIN dict THEN dict[k] ELSE {}) \cup (IF k = key THEN {value} ELSE {})]

\* one iteration of for line in f
ExtractLine ==
    /\ xpc = "lines"
    /\ lineno < Len(PredFile)
    /\ LET line == PredFile[lineno + 1]
       IN  IF StartsWith(line, GroundTruthTag)
           THEN /\ gt' = Some(Field(line, GroundTruthTag))
                /\ UNCHANGED gt_to_preds
           ELSE IF StartsWith(line, PredictionTag) /\ gt # NoneValue
           THEN /\ gt_to_preds' = AddDefault(gt_to_preds, gt[1], Field(line, PredictionTag))
                /\ gt' = NoneValue
           ELSE UNCHANGED <<gt, gt_to_preds>>
    /\ lineno' = lineno + 1
    /\ UNCHANGED xpc
    /\ UNCHANGED <<hvars, dvars, evars, svars, tvars, cvars, mvars>>

\* the file is read to its end; the dictionary is printed
ExtractPrint ==
    /\ xpc = "lines"
    /\ lineno = Len(PredFile)
    /\ xpc' = "printed"
    /\ UNCHANGED <<lineno, gt, gt_to_preds>>
    /\ UNCHANGED <<hvars, dvars, evars, svars, tvars, cvars, mvars>>

\* the script starts on the file of a finished evaluate_dataset run
InitExtract ==
    /\ \E n \in 0..MaxLogged : \E data \in [1..n -> Classes] :
       \E outs \in [1..n -> LoggedPredictions] :
          /\ dataset = data
          /\ outputs = outs
          /\ log = WrittenLog(data, outs)
          /\ eidx = n
          /\ total = n
          /\ correct = IF n = 0 THEN 0 ELSE log[Len(log)].correct
          /\ epc = IF n = 0 THEN "zero_division" ELSE "returned"
    /\ reasoning = FALSE
    /\ xpc = "lines"
    /\ lineno = 0
    /\ gt = NoneValue
    /\ gt_to_preds = <<>>
    /\ HierIdle
    /\ DataIdle
    /\ ScriptIdle
    /\ TextIdle
    /\ CropIdle
    /\ MergeIdle

NextExtract ==
    \/ ExtractLine
    \/ ExtractPrint

SpecExtract == InitExtract /\ [][NextExtract]_vars

\* the prediction texts logged for the samples of a ground truth
LoggedFor(name) == {outputs[i] : i \in {j \in 1..Len(dataset) : ClassName(dataset[j]) = name}}

\* the dictionary that inverts the log
InvertsLog ==
    /\ DOMAIN gt_to_preds = {ClassName(dataset[i]) : i \in 1..Len(dataset)}
    /\ \A name \in DOMAIN gt_to_preds : gt_to_preds[name] = LoggedFor(name)

\* a text of one line without the two words and without blanks around it
OneStrippedLine(text) ==
    /\ \A i \in 1..Len(text) : text[i] \notin {"\n", GroundTruthTag, PredictionTag}
    /\ text = <<>> \/ (text[1] # " " /\ text[Len(text)] # " ")

\* C29 (as stated): extract_gt_pred_dict.py inverts the log format of
\* evaluate_dataset: for any file evaluate_dataset wrote, the dictionary maps
\* each ground-truth label to exactly the set of complete prediction texts
\* logged for the samples with that label, also for predictions of several
\* lines or holding "Prediction:" or a line starting with "Ground truth:".
C29_InvertsAnyLog == xpc = "printed" => InvertsLog

\* C29 (amended): the dictionary inverts the log when every logged
\* prediction is one line without "Ground truth:" and "Prediction:" in it and
\* without whitespace at its ends.
C29_InvertsOneLineLog ==
    (xpc = "printed" /\ \A i \in 1..Len(outputs) : OneStrippedLine(outputs[i])) => InvertsLog

\* two samples of one label with different one-line predictions
C29_Witness ==
    /\ xpc = "printed"
    /\ Len(dataset) = 2 /\ dataset[1] = dataset[2] /\ dataset[1] = 1
    /\ outputs = << <<"a">>, <<"c">> >>
    /\ gt_to_preds[ClassName(1)] = {<<"a">>, <<"c">>}

(***************************************************************************)
(* merge_all.py (qwen_caltech_set/outputs).  A JSON value is its type and  *)
(* the values it holds: the elements of a list, the values of a dict.      *)
(***************************************************************************)

\* the most elements of a list in an input file
MaxItems == 2

JsonString == [type |-> "string", val |-> <<>>]
JsonDict(n) == [type |-> "dict", val |-> [i \in 1..n |-> JsonString]]
JsonList(items) == [type |-> "list", val |-> items]
\* a file that is missing or does not hold JSON
Unreadable == [type |-> "unreadable", val |-> <<>>]

JsonElements == {JsonString, JsonDict(0)}

\* what a file of files_to_merge may hold
JsonFiles ==
    {JsonList(items) : items \in UNION {[1..n -> JsonElements] : n \in 0..MaxItems}}
    \cup {JsonDict(0), JsonDict(1), JsonString, Unreadable}

FilesToMerge ==
    <<"category_outputs_all.json", "category_outputs_generic_all.json",
      "category_outputs_specific_all.json">>

\* Merge that appends every input as one element
MergeNested(list, data) == Append(list, data)

\* merged.extend(data) for a list, merged.append(data) for a dict
Merge(list, data) == IF data.type = "list" THEN list \o data.val ELSE Append(list, data)

\* one iteration of for fname in files_to_merge
MergeLoad ==
    /\ mpc = "load"
    /\ loaded < Len(FilesToMerge)
    /\ LET data == json_files[loaded + 1]
       IN  CASE data.type = "unreadable" ->
                  /\ mpc' = "load_error"
                  /\ UNCHANGED merged
             [] data.type \in {"list", "dict"} ->
                  /\ merged' = Merge(merged, data)
                  /\ UNCHANGED mpc
             [] OTHER ->
                  /\ mpc' = "value_error"
                  /\ UNCHANGED merged
    /\ loaded' = loaded + 1
    /\ UNCHANGED <<json_files, category_all>>
    /\ UNCHANGED <<hvars, dvars, evars, svars, tvars, cvars, xvars>>

\* json.dump(merged, f, indent=2) into category_all.json
MergeWrite ==
    /\ mpc = "load"
    /\ loaded = Len(FilesToMerge)
    /\ category_all' = Some(JsonList(merged))
    /\ mpc' = "done"
    /\ UNCHANGED <<json_files, loaded, merged>>
    /\ UNCHANGED <<hvars, dvars, evars, svars, tvars, cvars, xvars>>

InitMerge ==
    /\ mpc = "load"
    /\ json_files \in [1..Len(FilesToMerge) -> JsonFiles]
    /\ loaded = 0
    /\ merged = <<>>
    /\ category_all \in {NoneValue, Some(JsonList(<<JsonString>>))}
    /\ HierIdle
    /\ DataIdle
    /\ EvalIdle
    /\ ScriptIdle
    /\ TextIdle
    /\ CropIdle
    /\ ExtractIdle

NextMerge ==
    \/ MergeLoad
    \/ MergeWrite

SpecMerge == InitMerge /\ [][NextMerge]_vars

\* what an input contributes to the concatenation
Contribution(data) == IF data.type = "list" THEN data.val ELSE <<data>>

Supported(data) == data.type \in {"list", "dict"}

C30_Concatenation ==
    /\ mpc = "done" =>
           /\ \A i \in 1..Len(FilesToMerge) : Supported(json_files[i])
           /\ category_all =
                  Some(JsonList(Contribution(json_files[1]) \o Contribution(json_files[2])
                                \o Contribution(json_files[3])))
    /\ mpc = "load" => \A i \in 1..loaded : Supported(json_files[i])
    /\ mpc = "value_error" =>
           /\ json_files[loaded].type \notin {"list", "dict", "unreadable"}
           /\ \A i \in 1..(loaded - 1) : Supported(json_files[i])

C30_WrittenOnlyWhenMerged == category_all' # category_all => mpc' = "done"

\* C30: merge_all.py produces the concatenation of its three inputs in the
\* fixed file order, the elements of a list input appended in order and a dict
\* input appended as a single element; if an input holds another JSON type a
\* ValueError is raised and category_all.json is neither created nor
\* overwritten.
C30_MergesInFileOrder == []C30_Concatenation /\ [][C30_WrittenOnlyWhenMerged]_vars

\* a list of two different elements, a dict and a list were merged over an
\* older category_all.json
C30_Witness ==
    /\ mpc = "done"
    /\ json_files[1] = JsonList(<<JsonString, JsonDict(0)>>)
    /\ json_files[2] = JsonDict(1)
    /\ json_files[3] = JsonList(<<JsonDict(0)>>)
    /\ category_all = Some(JsonList(<<JsonString, JsonDict(0), JsonDict(1), JsonDict(0)>>))

====
